---- MODULE Spec2Model ----
(***************************************************************************)
(* The task-orchestration engine of src/orchestrator/                      *)
(* multi_agent_orchestrator.py: AgentTask / ExecutionPlan, the scheduling  *)
(* loop of Orchestrator._execute_plan, execute_plan (synchronous and       *)
(* asynchronous), get_plan_status, the active-plan registry and the        *)
(* orchestrator-level lock; the KnowledgeBase with its file (save, load),  *)
(* the effects of the agents on it; and run_ec2_instance of src/main.py.   *)
(*                                                                         *)
(* Threads are the callers of the public methods and the background        *)
(* threads started by an asynchronous execute_plan.  A `with self.lock:`   *)
(* block is one step (it needs the lock free), except the block of the     *)
(* scheduling loop, whose two reads of the task statuses are two steps     *)
(* with the lock held in between.  Task statuses are written outside the   *)
(* lock (_execute_task), one step per write.                               *)
(***************************************************************************)
EXTENDS Integers, Sequences, FiniteSets, TLC

\* ------------------------------------------------------------------ bounds
NTasks == 3         \* most tasks of a hand-built plan
MaxEdges == 3       \* most dependencies (ids in all depends_on) of a hand-built plan
MaxChain == 2       \* longest chain built by create_plan in the concurrent runs
NPlans == 2         \* plan objects in the concurrent runs
NCallers == 1       \* threads calling the public methods
MaxCalls == 2       \* execute_plan calls in one run (one background thread each)
NResources == 2     \* resource ids registered in the KnowledgeBase
NMetadata == 2      \* metadata values a resource is registered with
NInfos == 2         \* deployment_info values a deployment is registered with
MaxDeployments == 2 \* most deployments registered by the callers of the store
MaxInstances == 4   \* most instances in a response of ec2_client.run_instances
NArgs == 2          \* argument values of the LLM's tool calls
NToolIds == 2       \* ids of the LLM's tool calls
MaxToolCalls == 2   \* most tool calls in one response of the LLM
MaxClock == 3       \* seconds the clock of the tool reloads runs

\* --------------------------------------------------------------- constants
None == 0           \* Python's None, for a plan or a thread reference
MissingId == 0      \* a task id that names no task of the plan

Callers == 1..NCallers
Workers == (NCallers + 1)..(NCallers + MaxCalls)
Threads == Callers \cup Workers

\* AgentType (the enum) and the keys of Orchestrator.agents
AgentType == {"infrastructure", "deployment", "monitoring", "security", "cost"}
agents == {"infrastructure", "deployment", "monitoring"}
\* the agent types a hand-built task is given here: one registered, one not
TaskTypes == {"infrastructure", "security"}

\* the keys of Orchestrator.agents in insertion order (the order of .items())
agent_order == <<"infrastructure", "deployment", "monitoring">>

\* A request text is a sequence of words.  Words: the words of the texts
\* used here; lower: str.lower() of a word; keywords: some of the keywords
\* of each agent's can_handle; Occurs: `keyword in word` (substring).
Words == {"EC2", "deploy", "catalog", "hello"}
lower(w) == IF w = "EC2" THEN "ec2" ELSE w
keywords(a) ==
  IF a = "infrastructure" THEN {"ec2", "s3"}
  ELSE IF a = "deployment" THEN {"deploy", "git"}
  ELSE {"monitor", "log"}
Occurs(kw, w) == kw = w \/ (kw = "log" /\ w = "catalog")

\* the request texts given to create_plan: the empty text, a text without
\* keyword, texts for one, two and three agents (keywords in any order)
Requests == {<<>>, <<"hello">>, <<"EC2">>, <<"catalog">>, <<"deploy", "EC2">>,
             <<"catalog", "deploy", "EC2">>}

\* the resource ids, types and metadata given to register_resource
ResourceIds == 1..(IF NResources > NPlans THEN NResources ELSE NPlans)
ResourceTypes == {"ec2_instance", "s3_bucket"}
Metadata == 1..NMetadata
\* the deployment_info given to register_deployment
DeploymentInfos == 1..NInfos
\* the agent types update_agent_memory is called with (each with one key)
MemoryAgents == {"infrastructure"}

Terminal == {"completed", "failed"}
Status == {"pending", "running"} \cup Terminal

VARIABLES
  now,                \* int(time.time()), the clock second
  plan_id,            \* plan object -> ExecutionPlan.id
  description,        \* plan object -> ExecutionPlan.description (the request)
  depends_on,         \* plan object -> task -> AgentTask.depends_on (a set of ids)
  agent_type,         \* plan object -> task -> AgentTask.agent_type
  task_status,        \* plan object -> task -> AgentTask.status
  task_result,        \* plan object -> task -> AgentTask.result
  plan_status,        \* plan object -> ExecutionPlan.status
  active_plans,       \* Orchestrator.active_plans: id -> plan object or None
  plan_threads,       \* Orchestrator.plan_threads: id -> thread or None
  execution_history,  \* KnowledgeBase.execution_history
  resources,          \* KnowledgeBase.resources: id -> record or NoResource
  resources_by_type,  \* KnowledgeBase.resources_by_type: type -> id -> record or NoResource
  deployments,        \* KnowledgeBase.deployments
  agent_memories,     \* KnowledgeBase.agent_memories: agent type -> the value of its key, or None
  disk,               \* the file at KnowledgeBase.db_path
  kb_lock,            \* the thread inside a block of KnowledgeBase.lock, or Nobody
  load_pc,            \* the position of the thread inside KnowledgeBase.load
  data,               \* the local `data` of KnowledgeBase.load
  load_next,          \* the ids the loop of load has still to visit
  load_used,          \* the size of `resources` when the loop of load began
  returned,           \* what the latest register_deployment returned
  got,                \* the list the latest get_deployments returned, as its caller has it now
  lock,               \* the thread inside a block of Orchestrator.lock, or None
  pc,                 \* thread -> its position in the code
  plan_id_arg,        \* thread -> the plan_id parameter of _execute_plan
  plan_local,         \* thread -> the local `plan` of _execute_plan
  next_tasks,         \* thread -> what is left of the local `next_tasks`
  agent_outcome,      \* thread -> how lines 540-544 of _execute_task ended
  call,               \* caller -> its execute_plan in progress or last made
  poll,               \* what the latest get_plan_status returned: a plan or None
  calls_left,         \* execute_plan calls the run may still make
  handed,             \* plan object -> execute_plan calls made with it
  invoked,            \* plan object -> task -> calls of agent.execute_task
  was_terminal,       \* plan object -> task -> it has been completed or failed
  response,           \* main.py: how the latest ec2_client.run_instances() ended
  reply,              \* main.py: the text the latest run_ec2_instance returned
  app_lock,           \* app.py: the thread inside a block of orchestrator_lock, or None
  app_pc,             \* app.py: caller -> the position of its request handler
  reader_pc,          \* app.py: the position of the thread serving list_resources
  module,             \* the agent module in use: "agent" (src/agent.py) or "agent_mcp"
  last_message,       \* AgentState: the last of state['messages']
  pending_action_details,    \* AgentState.pending_action_details, or NoAction
  is_awaiting_confirmation,  \* AgentState.is_awaiting_confirmation
  node,               \* the graph: "user" between two invocations, else the node to run next
  steps,              \* the nodes run in this invocation
  llm_called,         \* the latest llm_node called the OpenAI API
  turn_reply,         \* the user's message of this invocation, and whether it was awaited
  released,           \* critical tool calls the tools node has run in this invocation
  proposed,           \* the action the LLM proposed last, while no user has answered it
  MCP_SERVER_URL,     \* agent_mcp: the base URL of the MCP server, "" when set empty
  mcp_pc,             \* execute_tool_via_mcp: "idle", "loop" (before an attempt) or "returned"
  mcp_tool,           \* execute_tool_via_mcp: its tool_name
  attempt,            \* execute_tool_via_mcp: the loop variable
  backoff,            \* execute_tool_via_mcp: the seconds the next wait takes
  requests_sent,      \* the requests.post calls this call has made
  slept,              \* the time.sleep calls this call has made, in order
  last_outcome,       \* how the latest attempt of this call ended
  mcp_result,         \* what the latest call returned, NoText for Python's None
  MCP_LC_TOOLS,       \* agent_mcp: the global tool list, as the names of its tools
  last_tools_update_time,    \* agent_mcp: the global, 0 until a load has succeeded
  tools_load_lock,    \* agent_mcp: the thread holding the lock, or "free"
  reload_pc,          \* thread -> its position in reload_mcp_tools_if_needed
  force,              \* thread -> the argument of its call
  current_time,       \* thread -> the local of its call
  new_tools,          \* thread -> the local of its call
  returned_tools,     \* thread -> what its latest call returned
  tools_loaded,       \* a load has stored a tool list that is not empty
  clock               \* time.time()

planVars == <<plan_id, description, depends_on, agent_type>>
kbVars == <<resources, resources_by_type, deployments, agent_memories, disk, kb_lock,
            load_pc, data, load_next, load_used, returned, got>>
taskVars == <<task_status, task_result, invoked, was_terminal>>
regVars == <<active_plans, plan_threads>>
localVars == <<plan_id_arg, plan_local, next_tasks, agent_outcome>>
callerVars == <<call, poll, calls_left, handed>>
appVars == <<app_lock, app_pc, reader_pc>>
agentVars == <<module, last_message, pending_action_details, is_awaiting_confirmation, node,
               steps, llm_called, turn_reply, released, proposed>>
mcpVars == <<MCP_SERVER_URL, mcp_pc, mcp_tool, attempt, backoff, requests_sent, slept,
             last_outcome, mcp_result>>
\* the variables of the conversational agents
toolsVars == <<MCP_LC_TOOLS, last_tools_update_time, tools_load_lock, reload_pc, force,
               current_time, new_tools, returned_tools, tools_loaded, clock>>
sideVars == <<agentVars, mcpVars, toolsVars>>
mainVars == <<response, reply, appVars, sideVars>>
vars == <<mainVars, now, planVars, taskVars, plan_status, regVars, execution_history, kbVars,
          lock, pc, localVars, callerVars>>

Plans == DOMAIN plan_id
Tasks(p) == DOMAIN depends_on[p]
PlanIds == 1..NPlans

\* ------------------------------------------------------------------ main.py
\* the instance ids and the error messages of the EC2 client
InstanceIds == {"i-1", "i-2", "i-3"}
ErrorMessages == {"Test error", "UnauthorizedOperation"}

\* the sequences over S of length n at most
RECURSIVE SeqsUpTo(_, _)
SeqsUpTo(S, n) ==
  IF n = 0 THEN {<<>>}
  ELSE LET shorter == SeqsUpTo(S, n - 1)
       IN shorter \cup {Append(q, x) : q \in {r \in shorter : Len(r) = n - 1}, x \in S}

\* how ec2_client.run_instances() ends: it returns a response with the key
\* 'Instances' (each instance with its 'InstanceId') or without it, or raises
NoResponse == [kind |-> "none", instances |-> <<>>, message |-> ""]
Responses ==
  {[kind |-> "returned", instances |-> ids, message |-> ""] :
     ids \in SeqsUpTo(InstanceIds, MaxInstances)}
  \cup {[kind |-> "no_instances", instances |-> <<>>, message |-> ""]}
  \cup {[kind |-> "raised", instances |-> <<>>, message |-> m] : m \in ErrorMessages}

\* separator.join(strings): a text is the sequence of its pieces
RECURSIVE join(_, _)
join(separator, strings) ==
  IF Len(strings) <= 1 THEN strings
  ELSE <<Head(strings), separator>> \o join(separator, Tail(strings))

\* the piece occurs in the text
contains(text, piece) == \E i \in 1..Len(text) : text[i] = piece

\* run_ec2_instance, lines 69-72: the try block, which ends with a text or
\* with the exception of the client
launch(outcome) ==
  IF outcome.kind = "raised"
  THEN [raised |-> TRUE, e |-> outcome.message, text |-> <<>>]
  ELSE LET instance_ids == outcome.instances   \* response.get('Instances', [])
           ids_str == join(", ", instance_ids)
       IN [raised |-> FALSE, e |-> "",
           text |-> <<"EC2 instance launched successfully", ". Instance IDs: ">> \o ids_str]

\* what propagates out of run_ec2_instance when nothing catches
Propagated == <<"raised">>

\* (mutant) run_ec2_instance without its except clause
run_ec2_instance_text_uncaught(outcome) ==
  IF launch(outcome).raised THEN Propagated ELSE launch(outcome).text

\* run_ec2_instance, lines 68-74: the text returned, that of the except
\* clause when the try block raised
run_ec2_instance_text(outcome) ==
  IF launch(outcome).raised
  THEN <<"Error launching EC2 instance", ": ", launch(outcome).e>>
  ELSE launch(outcome).text

\* ----------------------------------------------------- AgentTask, ExecutionPlan
NoCall == [plan |-> None, async |-> FALSE, thread |-> None]

\* AgentTask.mark_started
task_mark_started(p, t) ==
  /\ task_status' = [task_status EXCEPT ![p][t] = "running"]
  /\ UNCHANGED <<task_result, invoked, was_terminal>>

\* AgentTask.mark_completed(result) / AgentTask.mark_failed(error)
task_mark_done(p, t, status, result) ==
  /\ task_status' = [task_status EXCEPT ![p][t] = status]
  /\ task_result' = [task_result EXCEPT ![p][t] = result]
  /\ was_terminal' = [was_terminal EXCEPT ![p][t] = TRUE]
  /\ UNCHANGED invoked

\* (mutant) a failed dependency counts as satisfied
completed_task_ids_terminal(p) ==
  {t \in Tasks(p) : task_status[p][t] \in {"completed", "failed"}}

\* completed_task_ids of get_next_runnable_tasks: task t carries the id t
completed_task_ids(p) == {t \in Tasks(p) : task_status[p][t] = "completed"}

\* (mutant) the dependencies are not looked at
runnable_any_pending(p, t) == task_status[p][t] = "pending"

\* (mutant) a failed task is taken again
runnable_retry(p, t) ==
  /\ task_status[p][t] \in {"pending", "failed"}
  /\ \A dep \in depends_on[p][t] : dep \in completed_task_ids(p)

\* (mutant) nothing is scheduled any more once a task of the plan has failed
runnable_until_failure(p, t) ==
  /\ task_status[p][t] = "pending"
  /\ \A dep \in depends_on[p][t] : dep \in completed_task_ids(p)
  /\ \A u \in Tasks(p) : task_status[p][u] # "failed"

\* the condition of the list comprehension of get_next_runnable_tasks
runnable(p, t) ==
  /\ task_status[p][t] = "pending"
  /\ \A dep \in depends_on[p][t] : dep \in completed_task_ids(p)

\* ExecutionPlan.get_next_runnable_tasks: the tasks, in plan order, kept by
\* the comprehension
get_next_runnable_tasks(p) ==
  LET n == Cardinality(Tasks(p))
      pick[i \in 0..n] ==
        IF i = 0 THEN <<>>
        ELSE IF runnable(p, i) THEN Append(pick[i - 1], i) ELSE pick[i - 1]
  IN pick[n]

\* (mutant) any() in place of all()
is_complete_any(p) == \E t \in Tasks(p) : task_status[p][t] \in {"completed", "failed"}

\* ExecutionPlan.is_complete
is_complete(p) == \A t \in Tasks(p) : task_status[p][t] \in {"completed", "failed"}

\* (mutant) every agent type has an agent
agent_found_always(p, t) == agent_type[p][t] \in AgentType

\* the lookup self.agents.get(task.agent_type) of _execute_task
agent_found(p, t) == agent_type[p][t] \in agents

\* ------------------------------------------- analyze_request, KnowledgeBase
\* <Agent>.can_handle: any(keyword in task_description.lower() ...)
can_handle(a, request) ==
  \E i \in 1..Len(request) : \E kw \in keywords(a) : Occurs(kw, lower(request[i]))

\* (mutant) no default agent
no_default(required) == required

\* analyze_request, lines 410-412: infrastructure when no agent matched
default_agents(required) == IF required = <<>> THEN <<"infrastructure">> ELSE required

\* Orchestrator.analyze_request: the agents, in the order of self.agents, whose
\* can_handle accepts the request
analyze_request(request) ==
  LET n == Len(agent_order)
      required[i \in 0..n] ==
        IF i = 0 THEN <<>>
        ELSE IF can_handle(agent_order[i], request)
             THEN Append(required[i - 1], agent_order[i]) ELSE required[i - 1]
  IN default_agents(required[n])

\* what stands for a resource id that is not a key of the dict
NoResource == [type |-> "none", id |-> None, metadata |-> None]

\* the record register_resource stores (created_at left out)
resource_record(type, id, metadata) == [type |-> type, id |-> id, metadata |-> metadata]

\* (variant) a register_resource that also drops the id from the index of
\* every other type: with it the index agrees with `resources`
index_moved(by_type, type, id, metadata) ==
  [t \in ResourceTypes |->
     [i \in ResourceIds |-> IF i # id THEN by_type[t][i]
                            ELSE IF t = type THEN resource_record(type, id, metadata)
                            ELSE NoResource]]

\* register_resource, lines 136-139: the entry of the id in the index of its type
index_put(by_type, type, id, metadata) ==
  [by_type EXCEPT ![type][id] = resource_record(type, id, metadata)]

\* KnowledgeBase.get_resources_by_type: the dict of the type ({} when the
\* type is unknown), here the ids it holds with their records
get_resources_by_type(type) ==
  [id \in {i \in ResourceIds : resources_by_type[type][i] # NoResource}
     |-> resources_by_type[type][id]]

\* no thread is inside a block of KnowledgeBase.lock
Nobody == "nobody"

\* KnowledgeBase.__init__, lines 115-119: the empty collections
EmptyResources == [id \in ResourceIds |-> NoResource]
EmptyIndex == [t \in ResourceTypes |-> EmptyResources]
EmptyMemories == [a \in MemoryAgents |-> None]

\* the record register_deployment stores (created_at left out)
deployment_record(deployment_info) == [info |-> deployment_info]

\* what resource["type"] finds in a JSON object that has no key "type"
Missing == "missing"

\* json.dump of a resource record: the JSON object, here the tuple of the
\* values of its keys "type", "id", "metadata"; <<>> for an id that is no key
to_json(record) ==
  IF record = NoResource THEN <<>> ELSE <<record.type, record.id, record.metadata>>

\* json.load of such an object: the dict, of which load reads the keys
from_json(object) ==
  IF object = <<>> THEN NoResource
  ELSE [type |-> object[1], id |-> object[2], metadata |-> object[3]]

\* json.dump / json.load of a deployment record
deployment_to_json(record) == <<"deployment", record.info>>
deployment_from_json(object) == [info |-> object[2]]

\* the file at db_path: db_path is None (unused), no file, a file that is no
\* JSON text (garbage), or the JSON document written by save
NoDocument(kind) ==
  [kind |-> kind, resources |-> [id \in ResourceIds |-> <<>>], deployments |-> <<>>,
   agent_memories |-> EmptyMemories]
Unused == NoDocument("unused")
NoFile == NoDocument("absent")
Garbage == NoDocument("garbage")

\* save, lines 204-209: the document json.dump writes
document(res, deps, memories) ==
  [kind |-> "document",
   resources |-> [id \in ResourceIds |-> to_json(res[id])],
   deployments |-> [i \in 1..Len(deps) |-> deployment_to_json(deps[i])],
   agent_memories |-> memories]

\* how a save ends: the document is written; open() raises (the file is
\* left as it was); json.dump raises after open() has truncated the file
SaveOutcomes == {"ok", "open_failed", "dump_failed"}

\* KnowledgeBase.save: the file after a save of the collections given.  With
\* db_path None the methods do not save, and open(None) raises in save itself.
saved(file, res, deps, memories, outcome) ==
  IF file.kind = "unused" \/ outcome = "open_failed" THEN file
  ELSE IF outcome = "ok" THEN document(res, deps, memories)
  ELSE Garbage

\* the keys of a `resources` dict in the order load iterates over them
\* (ascending ids here)
RECURSIVE ascending(_)
ascending(ids) ==
  IF ids = {} THEN <<>>
  ELSE LET first == CHOOSE i \in ids : \A j \in ids : i <= j
       IN <<first>> \o ascending(ids \ {first})

resource_ids(res) == {id \in ResourceIds : res[id] # NoResource}

\* load, lines 222-226, over the ids given: each record is put in the index
\* of its type; resource["type"] raises KeyError where the key is missing and
\* the loop is left with the index built so far
RECURSIVE rebuild(_, _, _)
rebuild(index, res, ids) ==
  IF ids = <<>> THEN [index |-> index, raised |-> FALSE]
  ELSE LET id == Head(ids)
       IN IF res[id].type = Missing THEN [index |-> index, raised |-> TRUE]
          ELSE rebuild([index EXCEPT ![res[id].type][id] = res[id]], res, Tail(ids))

\* the collections of a KnowledgeBase
memory(res, index, deps, memories) ==
  [resources |-> res, resources_by_type |-> index, deployments |-> deps,
   agent_memories |-> memories]

\* KnowledgeBase.__init__: the empty store
EmptyStore == memory(EmptyResources, EmptyIndex, <<>>, EmptyMemories)

\* KnowledgeBase.load run to its end on the store `before`: nothing is
\* assigned when open or json.load raises; else `resources` is assigned, the
\* index emptied and rebuilt, and deployments and agent_memories assigned
\* unless the loop raised
loaded(before, file) ==
  IF file.kind # "document" THEN before
  ELSE LET res == [id \in ResourceIds |-> from_json(file.resources[id])]
           built == rebuild(EmptyIndex, res, ascending(resource_ids(res)))
       IN IF built.raised
          THEN memory(res, built.index, before.deployments, before.agent_memories)
          ELSE memory(res, built.index,
                      [i \in 1..Len(file.deployments) |->
                         deployment_from_json(file.deployments[i])],
                      file.agent_memories)

\* KnowledgeBase.__init__, lines 123-124: load() when db_path is given and
\* the file exists
constructed(file) ==
  IF file.kind \in {"unused", "absent"} THEN EmptyStore ELSE loaded(EmptyStore, file)

\* the load of a file raises (and is logged)
load_fails(file) ==
  \/ file.kind \in {"unused", "absent", "garbage"}
  \/ /\ file.kind = "document"
     /\ \E id \in ResourceIds : file.resources[id] # <<>> /\ file.resources[id][1] = Missing

\* the store holds the collections m
store_is(m) ==
  /\ resources = m.resources
  /\ resources_by_type = m.resources_by_type
  /\ deployments = m.deployments
  /\ agent_memories = m.agent_memories

\* no call of the store is in progress and no result is held
store_idle ==
  /\ kb_lock = Nobody
  /\ load_pc = "idle"
  /\ data = Unused
  /\ load_next = <<>>
  /\ load_used = 0
  /\ returned = deployment_record(None)
  /\ got = <<>>

\* KnowledgeBase.__init__ with no db_path: the empty store
kb_init ==
  /\ store_is(EmptyStore)
  /\ disk = Unused
  /\ store_idle

\* ------------------------------------------ agent.py, agent_mcp/agent.py
\* the two modules that build the conversational agent
Modules == {"agent", "agent_mcp"}

\* agent_mcp/agent.py, lines 31-35
CRITICAL_TOOLS == {"create_ec2_instance", "create_s3_bucket"}

\* the tool names of the LLM's tool calls; create_ec2_instance_tool is the
\* name of the one tool of agent.py
ToolNames == {"create_ec2_instance_tool", "create_ec2_instance", "create_s3_bucket"}
ToolArgs == 1..NArgs
ToolIds == 1..NToolIds
ToolCalls == [name : ToolNames, args : ToolArgs, id : ToolIds]

\* (mutant) only the creation of EC2 instances is held critical
is_critical_ec2(m, tool_name) ==
  IF m = "agent" THEN tool_name = "create_ec2_instance_tool"
  ELSE tool_name = "create_ec2_instance"

\* agent_mcp/agent.py is_critical_tool (lines 37-39); agent.py line 200:
\* tc_data["name"] == create_ec2_instance_tool.name
is_critical_tool(m, tool_name) ==
  IF m = "agent" THEN tool_name = "create_ec2_instance_tool"
  ELSE tool_name \in CRITICAL_TOOLS

\* what the user types, and .strip().lower() of it
UserTexts == {"yes", " Yes ", "do it", "no", "yes please", "launch"}
strip_lower(text) == IF text = " Yes " THEN "yes" ELSE text

\* line 455 (agent.py line 106)
Affirmative == {"yes", "y", "proceed", "ok", "confirm", "do it"}
is_affirmative(text) == strip_lower(text) \in Affirmative

\* a message: its type, its content (the user's text; for the others what
\* the content says), the tool name of a ToolMessage, the tool calls of an AIMessage
Message(type, content, name, tool_calls) ==
  [type |-> type, content |-> content, name |-> name, tool_calls |-> tool_calls]
SystemMessage == Message("system", "prompt", "", <<>>)
HumanMessage(text) == Message("human", text, "", <<>>)
AIMessage(content, tool_calls) == Message("ai", content, "", tool_calls)
ToolMessage(name, content) == Message("tool", content, name, <<>>)

\* pending_action_details: None, or the dict of lines 555-559
NoAction == [tool_name |-> "", tool_args |-> 0, tool_id |-> 0]
pending_action(tc_data) ==
  [tool_name |-> tc_data.name, tool_args |-> tc_data.args, tool_id |-> tc_data.id]
\* the tool call of lines 460-464
stored_tool_call(details) ==
  [name |-> details.tool_name, args |-> details.tool_args, id |-> details.tool_id]

\* lines 549-561: the first critical tool call of the response, or none
RECURSIVE pending_action_to_confirm(_, _)
pending_action_to_confirm(m, raw_tool_calls) ==
  IF raw_tool_calls = <<>> THEN NoAction
  ELSE IF is_critical_tool(m, Head(raw_tool_calls).name)
  THEN pending_action(Head(raw_tool_calls))
  ELSE pending_action_to_confirm(m, Tail(raw_tool_calls))

\* what a tool's result says
ToolResults == {"launched successfully", "created successfully", "error"}

\* lines 517-523 (agent.py lines 163-167): the last message is the success
\* of a critical tool, so the LLM is given no tools
tools_withheld(m, last) ==
  /\ last.type = "tool"
  /\ is_critical_tool(m, last.name)
  /\ IF m = "agent" THEN last.content = "launched successfully"
     ELSE last.content \in {"launched successfully", "created successfully"}

\* how openai_client.chat.completions.create and the reading of its
\* response end: a message with tool calls (none when no tools were given),
\* APIError, or another exception
LlmResponses(withheld) ==
  {[kind |-> "api_error", tool_calls |-> <<>>], [kind |-> "error", tool_calls |-> <<>>]}
  \cup [kind : {"message"},
        tool_calls : IF withheld THEN {<<>>} ELSE SeqsUpTo(ToolCalls, MaxToolCalls)]

\* what llm_node returns, and whether it called the LLM
Returned(message, details, awaiting, called) ==
  [message |-> message, pending_action_details |-> details,
   is_awaiting_confirmation |-> awaiting, llm_called |-> called]

\* (mutant) a reply that does not confirm leaves the action pending
refusal_kept(details) == [details |-> details, awaiting |-> TRUE]

\* lines 486-489: the reply does not confirm
refusal(details) == [details |-> NoAction, awaiting |-> FALSE]

\* (mutant) the proposal is stored but the flag not set
proposal_unflagged(action) == [details |-> action, awaiting |-> FALSE]

\* lines 564-565: a critical action is proposed
proposal(action) == [details |-> action, awaiting |-> TRUE]

\* llm_node, lines 445-495 (agent.py lines 93-147): the user's reply to the
\* confirmation question
confirmation_reply(details, text) ==
  IF is_affirmative(text)
  THEN IF details # NoAction
       THEN Returned(AIMessage("proceeding", <<stored_tool_call(details)>>),
                     NoAction, FALSE, FALSE)
       ELSE Returned(AIMessage("no action pending", <<>>), NoAction, FALSE, FALSE)
  ELSE Returned(AIMessage("not proceeding", <<>>),
                refusal(details).details, refusal(details).awaiting, FALSE)

\* llm_node, lines 497-596 (agent.py lines 149-249): the LLM is called and
\* answers with resp; a critical tool call in it is stored and asked about
llm_call(m, last, details, awaiting, resp) ==
  LET cleared == (awaiting \/ (m = "agent_mcp" /\ tools_withheld(m, last)))
      details0 == IF cleared THEN NoAction ELSE details
      awaiting0 == IF cleared THEN FALSE ELSE awaiting
      action == pending_action_to_confirm(m, resp.tool_calls)
  IN IF resp.kind # "message"
     THEN Returned(AIMessage("llm error", <<>>), NoAction, FALSE, TRUE)
     ELSE IF action # NoAction
     THEN Returned(AIMessage("shall I proceed", <<>>),
                   proposal(action).details, proposal(action).awaiting, TRUE)
     ELSE Returned(AIMessage("text", resp.tool_calls), details0, awaiting0, TRUE)

\* should_continue, lines 608-619 (agent.py lines 253-267); END gives the
\* turn back to the user
should_continue(awaiting, last) ==
  IF awaiting THEN "user"
  ELSE IF last.type = "ai" /\ last.tool_calls # <<>> THEN "tools" ELSE "user"

\* the critical tool calls among the calls
RECURSIVE critical_calls(_, _)
critical_calls(m, calls) ==
  IF calls = <<>> THEN 0
  ELSE (IF is_critical_tool(m, Head(calls).name) THEN 1 ELSE 0) + critical_calls(m, Tail(calls))

\* main(), lines 33-37 of main.py: the initial agent state
agent_init(m) ==
  /\ module = m
  /\ last_message = SystemMessage
  /\ pending_action_details = NoAction
  /\ is_awaiting_confirmation = FALSE
  /\ node = "user"
  /\ steps = 0
  /\ llm_called = FALSE
  /\ turn_reply = [text |-> "", awaited |-> FALSE]
  /\ released = 0
  /\ proposed = NoAction

\* --------------------------------- execute_tool_via_mcp (agent_mcp/agent.py)
\* line 75
max_retries == 3

\* line 26: the URL of the environment, the default, or "" when it is set empty
McpUrls == {"http://localhost:8000", ""}

\* status codes of the server's responses
StatusCodes == {200, 400, 404, 500, 503}

\* the body of a response: a JSON object with status "success", another JSON
\* object, JSON that is no object (a list), or no JSON
Bodies == {"success", "error", "not_object", "not_json"}

\* how requests.post of line 86 ends: with a response, or raising
Outcomes ==
  [kind : {"response"}, status_code : StatusCodes, body : Bodies]
    \cup [kind : {"Timeout", "ConnectionError", "Exception"}, status_code : {0}, body : {""}]

NoOutcome == [kind |-> "none", status_code |-> 0, body |-> ""]

\* the branch of the loop body an attempt ends in: lines 98-107 for a status
\* of 400 and more; else response.json() of line 114 raises JSONDecodeError
\* (line 143), or mcp_response.get of line 115 raises AttributeError on a
\* list (line 148), or lines 115-121; else the except clause of what
\* requests.post raised
branch(o) ==
  IF o.kind = "response"
  THEN IF o.status_code >= 400
       THEN IF o.status_code < 500 THEN "client_error" ELSE "server_error"
       ELSE IF o.body = "not_json" THEN "JSONDecodeError"
       ELSE IF o.body = "not_object" THEN "Exception"
       ELSE IF o.body = "success" THEN "success"
       ELSE "mcp_error"
  ELSE o.kind

\* the branches that sleep and continue: lines 100-106, 123-130, 133-140, 148-155
retried(b) == b \in {"server_error", "Timeout", "ConnectionError", "Exception"}

may_retry_last(a) == a <= max_retries

\* `if attempt < max_retries:` of lines 102, 126, 136, 151
may_retry(a) == a < max_retries

\* the text a return statement builds, by the branch that builds it
Text(kind, tool_name) == [kind |-> kind, tool_name |-> tool_name]

\* Python's None: what a call returns when the loop ends without a return
NoText == [kind |-> "None", tool_name |-> ""]

\* no call of execute_tool_via_mcp has been made
mcp_init(url) ==
  /\ MCP_SERVER_URL = url
  /\ mcp_pc = "idle"
  /\ mcp_tool = ""
  /\ attempt = 0
  /\ backoff = 0
  /\ requests_sent = 0
  /\ slept = <<>>
  /\ last_outcome = NoOutcome
  /\ mcp_result = NoText

\* ------------------------------ reload_mcp_tools_if_needed (agent_mcp/agent.py)
\* the thread of monitor_loop (line 388) and the thread that imports the
\* module and builds the graph
ReloadThreads == {"monitor", "main"}

\* what load_mcp_tools returns: the tools the server lists, [] when it lists
\* none, and [] after any exception (line 243)
ToolLists == {<<>>, <<"create_ec2_instance">>, <<"create_ec2_instance", "create_s3_bucket">>}

\* the force argument of a thread's calls: True at lines 351, 365, 372 (the
\* monitor) and 629 (build_agent), the default False at lines 396 and 602
Forces(th) == IF th = "monitor" THEN {TRUE} ELSE BOOLEAN

\* line 313
load_needed(f) == f \/ last_tools_update_time = 0 \/ Len(MCP_LC_TOOLS) = 0

tools_replaced(fetched, old) == fetched

\* lines 317-319: `if new_tools:` guards the assignment of MCP_LC_TOOLS
tools_kept_if_empty(fetched, old) == IF fetched # <<>> THEN fetched ELSE old

\* lines 290-292, before any call
tools_init ==
  /\ MCP_LC_TOOLS = <<>>
  /\ last_tools_update_time = 0
  /\ tools_load_lock = "free"
  /\ reload_pc = [th \in ReloadThreads |-> "idle"]
  /\ force = [th \in ReloadThreads |-> FALSE]
  /\ current_time = [th \in ReloadThreads |-> 0]
  /\ new_tools = [th \in ReloadThreads |-> <<>>]
  /\ returned_tools = [th \in ReloadThreads |-> <<>>]
  /\ tools_loaded = FALSE
  /\ clock = 1

\* -------------------------------------------------------------------- Init
\* the number of ids in the depends_on of the tasks 1..n of a plan
RECURSIVE Edges(_, _)
Edges(deps, n) == IF n = 0 THEN 0 ELSE Cardinality(deps[n]) + Edges(deps, n - 1)

\* the dependency graphs of a hand-built plan of n tasks: any ids, of tasks
\* of the plan (itself included) or of none (MissingId)
Graphs(n) ==
  {deps \in [1..n -> SUBSET ({MissingId} \cup (1..n))] : Edges(deps, n) <= MaxEdges}

\* (mutant) create_plan gives no task a dependency
no_deps(n) == [t \in 1..n |-> {}]

\* the dependencies create_plan gives the tasks of a plan of n tasks
ChainDeps(n) == [t \in 1..n |-> IF t > 1 THEN {t - 1} ELSE {}]
\* the agent types of a plan of create_plan: registered ones, in registration order
ChainTypes(n) ==
  [t \in 1..n |-> IF t = 1 THEN "infrastructure"
                  ELSE IF t = 2 THEN "deployment" ELSE "monitoring"]

\* a request for which create_plan builds the n tasks of ChainTypes(n)
ChainRequest(n) ==
  IF n = 1 THEN <<"EC2">>
  ELSE IF n = 2 THEN <<"deploy", "EC2">> ELSE <<"catalog", "deploy", "EC2">>

InitOrchestrator(callers, calls) ==
  /\ task_status = [p \in Plans |-> [t \in Tasks(p) |-> "pending"]]
  /\ task_result = [p \in Plans |-> [t \in Tasks(p) |-> "none"]]
  /\ invoked = [p \in Plans |-> [t \in Tasks(p) |-> 0]]
  /\ was_terminal = [p \in Plans |-> [t \in Tasks(p) |-> FALSE]]
  /\ plan_status = [p \in Plans |-> "pending"]
  /\ active_plans = [i \in PlanIds |-> None]
  /\ plan_threads = [i \in PlanIds |-> None]
  /\ execution_history = <<>>
  /\ lock = None
  /\ pc = [th \in Threads |-> IF th \in callers THEN "idle"
                              ELSE IF th \in Callers THEN "off" ELSE "unborn"]
  /\ plan_id_arg = [th \in Threads |-> None]
  /\ plan_local = [th \in Threads |-> None]
  /\ next_tasks = [th \in Threads |-> <<>>]
  /\ agent_outcome = [th \in Threads |-> "none"]
  /\ call = [c \in Callers |-> NoCall]
  /\ poll = None
  /\ calls_left = calls
  /\ handed = [p \in Plans |-> 0]
  /\ response = NoResponse
  /\ reply = <<>>
  /\ app_lock = None
  /\ app_pc = [c \in Callers |-> "none"]
  /\ reader_pc = "idle"

\* the modules of the conversational agent as they are after import
InitSides(modules, urls) ==
  /\ \E m \in modules : agent_init(m)
  /\ \E url \in urls : mcp_init(url)
  /\ tools_init

InitWith(callers, calls, modules) ==
  /\ InitOrchestrator(callers, calls)
  /\ InitSides(modules, {"http://localhost:8000"})

\* the agent module plays no part
InitRest(callers, calls) == InitWith(callers, calls, {"agent"})

\* One hand-built plan with any dependency graph, handed once to execute_plan
\* by one caller, who may also poll it.
InitGraph ==
  /\ now = 1
  /\ plan_id = [p \in {1} |-> 1]
  /\ description = [p \in {1} |-> <<>>]
  /\ kb_init
  /\ \E n \in 1..NTasks :
       /\ depends_on \in [{1} -> Graphs(n)]
       /\ agent_type \in [{1} -> [1..n -> TaskTypes]]
  /\ InitRest({1}, 1)

\* Plans built by create_plan (chains), whose ids, taken from the clock, may
\* coincide; any caller may hand any of them to execute_plan.
Init ==
  /\ plan_id \in [1..NPlans -> PlanIds]
  /\ plan_id[1] = 1
  /\ now = NPlans
  /\ kb_init
  /\ \E len \in [1..NPlans -> 1..MaxChain] :
       /\ description = [p \in 1..NPlans |-> ChainRequest(len[p])]
       /\ depends_on = [p \in 1..NPlans |-> ChainDeps(len[p])]
       /\ agent_type = [p \in 1..NPlans |-> ChainTypes(len[p])]
  /\ InitRest(Callers, MaxCalls)

\* ------------------------------------------------------------- execute_plan
\* the thread object execute_plan creates: the next one not yet created
NewThread == CHOOSE w \in Workers :
               /\ pc[w] = "unborn"
               /\ \A v \in Workers : pc[v] = "unborn" => w <= v

\* execute_plan, `with self.lock: self.active_plans[plan.id] = plan`, whoever
\* calls it
execute_plan_register(c, p, async) ==
  /\ pc[c] = "idle"
  /\ calls_left > 0
  /\ lock = None
  /\ active_plans' = [active_plans EXCEPT ![plan_id[p]] = p]
  /\ call' = [call EXCEPT ![c] = [plan |-> p, async |-> async, thread |-> None]]
  /\ calls_left' = calls_left - 1
  /\ handed' = [handed EXCEPT ![p] = @ + 1]
  /\ plan_id_arg' = [plan_id_arg EXCEPT ![c] = plan_id[p]]
  /\ pc' = [pc EXCEPT ![c] = IF async THEN "exec_thread" ELSE "ep_begin"]
  /\ UNCHANGED <<now, kbVars, planVars, taskVars, plan_status, plan_threads, execution_history,
                 lock, plan_local, next_tasks, agent_outcome, poll>>

\* execute_plan called by a client of the Orchestrator
execute_plan(c, p, async) ==
  /\ execute_plan_register(c, p, async)
  /\ UNCHANGED mainVars

\* execute_plan, thread = Thread(target=_execute_plan_thread, args=(plan.id,))
\* and `with self.lock: self.plan_threads[plan.id] = thread`
execute_plan_thread(c) ==
  /\ pc[c] = "exec_thread"
  /\ lock = None
  /\ LET w == NewThread IN
       /\ plan_threads' = [plan_threads EXCEPT ![plan_id_arg[c]] = w]
       /\ plan_id_arg' = [plan_id_arg EXCEPT ![w] = plan_id_arg[c]]
       /\ call' = [call EXCEPT ![c].thread = w]
       /\ pc' = [pc EXCEPT ![c] = "exec_start", ![w] = "created"]
  /\ UNCHANGED <<mainVars, now, kbVars, planVars, taskVars, plan_status, active_plans, execution_history,
                 lock, plan_local, next_tasks, agent_outcome, poll, calls_left, handed>>

\* execute_plan, thread.start(): the thread enters _execute_plan_thread
thread_start(c) ==
  /\ pc[c] = "exec_start"
  /\ pc' = [pc EXCEPT ![c] = "exec_return", ![call[c].thread] = "ep_begin"]
  /\ UNCHANGED <<mainVars, now, kbVars, planVars, taskVars, plan_status, regVars, execution_history,
                 lock, localVars, callerVars>>

\* execute_plan, `return plan` of the asynchronous branch
execute_plan_return(c) ==
  /\ pc[c] = "exec_return"
  /\ call' = [call EXCEPT ![c] = NoCall]
  /\ plan_id_arg' = [plan_id_arg EXCEPT ![c] = None]
  /\ pc' = [pc EXCEPT ![c] = "idle"]
  /\ UNCHANGED <<mainVars, now, kbVars, planVars, taskVars, plan_status, regVars, execution_history,
                 lock, plan_local, next_tasks, agent_outcome, poll, calls_left, handed>>

\* ------------------------------------------------------------ _execute_plan
\* what a thread keeps of _execute_plan once it has left it
leave(th, position) ==
  /\ pc' = [pc EXCEPT ![th] = position]
  /\ plan_id_arg' = [plan_id_arg EXCEPT ![th] = None]
  /\ plan_local' = [plan_local EXCEPT ![th] = None]
  /\ next_tasks' = [next_tasks EXCEPT ![th] = <<>>]
  /\ UNCHANGED agent_outcome

\* _execute_plan, lines 485-490: the plan is looked up by its id and marked
\* started; ValueError when the id is not registered.  Raised in a background
\* thread it is caught by _execute_plan_thread, raised in a synchronous
\* execute_plan it reaches the caller.
execute_plan_begin(th) ==
  /\ pc[th] = "ep_begin"
  /\ lock = None
  /\ IF active_plans[plan_id_arg[th]] = None
     THEN /\ IF th \in Workers
             THEN /\ pc' = [pc EXCEPT ![th] = "thread_except"]
                  /\ UNCHANGED <<localVars, call>>
             ELSE /\ leave(th, "idle")
                  /\ call' = [call EXCEPT ![th] = NoCall]
          /\ UNCHANGED plan_status
     ELSE /\ plan_local' = [plan_local EXCEPT ![th] = active_plans[plan_id_arg[th]]]
          /\ plan_status' = [plan_status EXCEPT
                               ![active_plans[plan_id_arg[th]]] = "running"]
          /\ pc' = [pc EXCEPT ![th] = "loop"]
          /\ UNCHANGED <<plan_id_arg, next_tasks, agent_outcome, call>>
  /\ UNCHANGED <<mainVars, now, kbVars, planVars, taskVars, regVars, execution_history, lock, poll,
                 calls_left, handed>>

\* (mutant) the for loop of lines 515-516 runs inside the `with self.lock:` block
lock_kept(th, found) == th

\* the owner of the lock after the block of lines 496-512 has computed
\* next_tasks = found: the block ends before the for loop dispatches the
\* tasks; with none it goes on to lines 503-512
lock_after_select(th, found) == IF found = <<>> THEN th ELSE None

\* _execute_plan, lines 496-501: inside the lock, leave the loop when the id
\* is no longer registered, else compute next_tasks; with tasks to run the
\* lock is released, with none it is kept for lines 503-512.
loop_select(th) ==
  /\ pc[th] = "loop"
  /\ lock = None
  /\ IF active_plans[plan_id_arg[th]] = None
     THEN /\ pc' = [pc EXCEPT ![th] = "archive"]
          /\ UNCHANGED <<next_tasks, lock>>
     ELSE LET found == get_next_runnable_tasks(plan_local[th]) IN
          /\ next_tasks' = [next_tasks EXCEPT ![th] = found]
          /\ pc' = [pc EXCEPT ![th] = IF found = <<>> THEN "loop_empty" ELSE "dispatch"]
          /\ lock' = lock_after_select(th, found)
  /\ UNCHANGED <<mainVars, now, kbVars, planVars, taskVars, plan_status, regVars, execution_history,
                 plan_id_arg, plan_local, agent_outcome, callerVars>>

\* (mutant) a plan with no runnable task is always marked completed
final_status_completed(p) == "completed"

\* the status lines 505-511 give a plan that has no runnable task
final_status(p) == IF is_complete(p) THEN "completed" ELSE "failed"

\* (mutant) line 519 is inside the `with self.lock:` block of the loop
lock_through_archive(th) == th

\* the owner of the lock after the `break` of line 512: the block is left
\* before line 519 stores the plan in the KnowledgeBase
lock_after_break(th) == None

\* _execute_plan, lines 503-512: no runnable task; the plan is marked
\* completed or failed, the lock released and the loop left.
loop_finish(th) ==
  /\ pc[th] = "loop_empty"
  /\ lock = th
  /\ plan_status' = [plan_status EXCEPT ![plan_local[th]] = final_status(plan_local[th])]
  /\ lock' = lock_after_break(th)
  /\ pc' = [pc EXCEPT ![th] = "archive"]
  /\ UNCHANGED <<mainVars, now, kbVars, planVars, taskVars, regVars, execution_history, localVars, callerVars>>

\* _execute_task, line 538: task.mark_started() of the next task of next_tasks
task_start(th) ==
  /\ pc[th] = "dispatch"
  /\ task_mark_started(plan_local[th], Head(next_tasks[th]))
  /\ pc' = [pc EXCEPT ![th] = "in_task"]
  /\ UNCHANGED <<mainVars, now, kbVars, planVars, plan_status, regVars, execution_history, lock, localVars,
                 callerVars>>

\* the variables of the Orchestrator and of its threads, and of main.py
orchVars == <<mainVars, now, planVars, taskVars, plan_status, regVars, execution_history,
              lock, pc, localVars, callerVars>>
\* the variables of a load in progress
loadVars == <<load_pc, data, load_next, load_used>>

\* KnowledgeBase.register_resource, the `with self.lock:` block: the record
\* is stored, indexed under its type and, with a db_path, the store saved
kb_register_resource(type, id, metadata, outcome) ==
  /\ kb_lock = Nobody
  /\ resources' = [resources EXCEPT ![id] = resource_record(type, id, metadata)]
  /\ resources_by_type' = index_put(resources_by_type, type, id, metadata)
  /\ disk' = saved(disk, resources', deployments, agent_memories, outcome)
  /\ UNCHANGED <<deployments, agent_memories, kb_lock, loadVars, returned, got>>

\* (mutant) register_deployment puts the record first
prepended(deps, record) == <<record>> \o deps

\* register_deployment, line 161: self.deployments.append(deployment_record)
appended(deps, record) == Append(deps, record)

\* KnowledgeBase.register_deployment, the `with self.lock:` block: the record
\* is appended, the store saved with a db_path, and the record returned
kb_register_deployment(deployment_info, outcome) ==
  /\ kb_lock = Nobody
  /\ deployments' = appended(deployments, deployment_record(deployment_info))
  /\ returned' = deployment_record(deployment_info)
  /\ disk' = saved(disk, resources, deployments', agent_memories, outcome)
  /\ UNCHANGED <<resources, resources_by_type, agent_memories, kb_lock, loadVars, got>>

\* "ec2" in task.description.lower(): the description of a task of
\* create_plan ends with the request (no request here mentions s3)
mentions_ec2(request) == \E i \in 1..Len(request) : Occurs("ec2", lower(request[i]))

\* (mutant) the agent marks the task it is given completed
task_status_marked(p, t) == [task_status EXCEPT ![p][t] = "completed"]

\* the statuses of the tasks after an agent's execute_task was given task t
\* of plan p: lines 272-317, 334-354, 371-380 write to no task
task_status_after_agent(p, t) == task_status

\* what execute_task of the agent of the type does to the KnowledgeBase for
\* a task of plan p: InfrastructureAgent registers the instance i-<now> when
\* the description mentions ec2, DeploymentAgent registers a deployment
agent_effect(type, p) ==
  IF type = "infrastructure" /\ mentions_ec2(description[p])
  THEN \E outcome \in SaveOutcomes : kb_register_resource("ec2_instance", now, 1, outcome)
  ELSE IF type = "deployment"
  THEN \E outcome \in SaveOutcomes : kb_register_deployment(now, outcome)
  ELSE UNCHANGED kbVars

\* _execute_task, lines 540-544: the agent is looked up; none: ValueError
\* without a call; else agent.execute_task returns its result (ok), with its
\* effect on the KnowledgeBase, or raises
agent_execute_task(th) ==
  /\ pc[th] = "in_task"
  /\ LET p == plan_local[th]
         t == Head(next_tasks[th])
     IN IF agent_found(p, t)
        THEN \E ok \in BOOLEAN :
               /\ agent_outcome' = [agent_outcome EXCEPT ![th] = IF ok THEN "result" ELSE "error"]
               /\ task_status' = task_status_after_agent(p, t)
               /\ invoked' = [invoked EXCEPT ![p][t] = @ + 1]
               /\ IF ok THEN agent_effect(agent_type[p][t], p) ELSE UNCHANGED kbVars
        ELSE /\ agent_outcome' = [agent_outcome EXCEPT ![th] = "no_agent"]
             /\ UNCHANGED <<task_status, invoked, kbVars>>
  /\ pc' = [pc EXCEPT ![th] = "agent_returned"]
  /\ UNCHANGED <<mainVars, now, planVars, task_result, was_terminal, plan_status, regVars,
                 execution_history, lock, plan_id_arg, plan_local, next_tasks, callerVars>>

\* _execute_task, lines 545-553: the task is marked completed with the
\* result, or failed with the error.  Then the for loop goes on, or the
\* while loop when next_tasks is exhausted.
task_finish(th) ==
  /\ pc[th] = "agent_returned"
  /\ LET p == plan_local[th]
         t == Head(next_tasks[th])
     IN IF agent_outcome[th] = "result"
        THEN task_mark_done(p, t, "completed", "result")
        ELSE task_mark_done(p, t, "failed", agent_outcome[th])
  /\ agent_outcome' = [agent_outcome EXCEPT ![th] = "none"]
  /\ next_tasks' = [next_tasks EXCEPT ![th] = Tail(@)]
  /\ pc' = [pc EXCEPT ![th] = IF Tail(next_tasks[th]) = <<>> THEN "loop" ELSE "dispatch"]
  /\ UNCHANGED <<mainVars, now, kbVars, planVars, plan_status, regVars, execution_history, lock, plan_id_arg,
                 plan_local, callerVars>>

\* _execute_plan, line 519: knowledge_base.add_execution_plan(plan), the
\* `with self.lock:` block of the KnowledgeBase
archive(th) ==
  /\ pc[th] = "archive"
  /\ kb_lock = Nobody
  /\ execution_history' = Append(execution_history, plan_local[th])
  /\ pc' = [pc EXCEPT ![th] = "cleanup"]
  /\ UNCHANGED <<mainVars, now, kbVars, planVars, taskVars, plan_status, regVars, lock, localVars, callerVars>>

\* what lines 523-531 return: the plan registered under the id, or the local
\* plan when the id is gone
returned_plan(th) ==
  IF active_plans[plan_id_arg[th]] # None
  THEN active_plans[plan_id_arg[th]] ELSE plan_local[th]

\* _execute_plan, lines 522-531: the id is unregistered, with its thread, and
\* returned_plan returned.  A caller gets it as the result of execute_plan; a
\* background thread ends.
cleanup(th) ==
  /\ pc[th] = "cleanup"
  /\ lock = None
  /\ active_plans' = [active_plans EXCEPT ![plan_id_arg[th]] = None]
  /\ plan_threads' = IF active_plans[plan_id_arg[th]] # None
                     THEN [plan_threads EXCEPT ![plan_id_arg[th]] = None]
                     ELSE plan_threads
  /\ call' = IF th \in Callers THEN [call EXCEPT ![th] = NoCall] ELSE call
  /\ leave(th, IF th \in Callers THEN "idle" ELSE "done")
  /\ UNCHANGED <<mainVars, now, kbVars, planVars, taskVars, plan_status, execution_history, lock, poll,
                 calls_left, handed>>

\* _execute_plan_thread, lines 477-481: the handler of an exception of
\* _execute_plan marks failed whatever plan is registered under the id
thread_except(th) ==
  /\ pc[th] = "thread_except"
  /\ lock = None
  /\ plan_status' = IF active_plans[plan_id_arg[th]] # None
                    THEN [plan_status EXCEPT ![active_plans[plan_id_arg[th]]] = "failed"]
                    ELSE plan_status
  /\ leave(th, "done")
  /\ UNCHANGED <<mainVars, now, kbVars, planVars, taskVars, regVars, execution_history, lock, callerVars>>

\* Orchestrator.get_plan_status: self.active_plans.get(plan_id), the plan
\* object itself (the caller reads its status from the object) or None
active_plans_get(c, id) ==
  /\ pc[c] = "idle"
  /\ lock = None
  /\ poll' = active_plans[id]
  /\ UNCHANGED <<now, kbVars, planVars, taskVars, plan_status, regVars, execution_history, lock, pc,
                 localVars, call, calls_left, handed>>

\* get_plan_status called by a client of the Orchestrator
get_plan_status(c, id) ==
  /\ active_plans_get(c, id)
  /\ UNCHANGED mainVars

\* ----------------------------------------------- create_plan, the KnowledgeBase
\* a second of the clock passes
Tick ==
  /\ now < NPlans
  /\ now' = now + 1
  /\ UNCHANGED <<mainVars, planVars, taskVars, plan_status, regVars, execution_history, kbVars,
                 lock, pc, localVars, callerVars>>

\* (mutant) create_plan registers the plan it builds
registry_with_plan(id, p) == [active_plans EXCEPT ![id] = p]

\* active_plans after create_plan has built plan p with the id: as before
registry_after_create(id, p) == active_plans

\* create_plan, line 433: task_id = f"{plan_id}-task-{i}" of task t = i + 1 of plan p
task_id(p, t) == <<plan_id[p], "task", t - 1>>

\* Orchestrator.create_plan: one task per agent type of analyze_request, each
\* after the first depending on the one before; the id is taken from the clock.
\* The new plan object is the next one; task i of the code is task i + 1 here.
create_plan(c, request) ==
  /\ pc[c] = "idle"
  /\ Cardinality(Plans) < NPlans
  /\ LET required_agent_types == analyze_request(request)
         n == Len(required_agent_types)
         p == Cardinality(Plans) + 1
     IN /\ plan_id' = Append(plan_id, now)
        /\ description' = Append(description, request)
        /\ depends_on' = Append(depends_on, ChainDeps(n))
        /\ agent_type' = Append(agent_type, required_agent_types)
        /\ task_status' = Append(task_status, [t \in 1..n |-> "pending"])
        /\ task_result' = Append(task_result, [t \in 1..n |-> "none"])
        /\ invoked' = Append(invoked, [t \in 1..n |-> 0])
        /\ was_terminal' = Append(was_terminal, [t \in 1..n |-> FALSE])
        /\ plan_status' = Append(plan_status, "pending")
        /\ handed' = Append(handed, 0)
        /\ active_plans' = registry_after_create(now, p)
  /\ UNCHANGED <<mainVars, now, plan_threads, execution_history, kbVars, lock, pc, localVars,
                 call, poll, calls_left>>

\* the store leaves the Orchestrator and its threads alone
register_resource(type, id, metadata) ==
  /\ \E outcome \in SaveOutcomes : kb_register_resource(type, id, metadata, outcome)
  /\ UNCHANGED orchVars

register_deployment(deployment_info) ==
  /\ Len(deployments) < MaxDeployments
  /\ \E outcome \in SaveOutcomes : kb_register_deployment(deployment_info, outcome)
  /\ UNCHANGED orchVars

\* KnowledgeBase.update_agent_memory (one key for each agent type)
update_agent_memory(agent, value) ==
  /\ kb_lock = Nobody
  /\ agent_memories' = [agent_memories EXCEPT ![agent] = value]
  /\ \E outcome \in SaveOutcomes :
       disk' = saved(disk, resources, deployments, agent_memories', outcome)
  /\ UNCHANGED <<resources, resources_by_type, deployments, kb_lock, loadVars, returned, got>>
  /\ UNCHANGED orchVars

\* KnowledgeBase.get_deployments: self.deployments.copy()
get_deployments ==
  /\ kb_lock = Nobody
  /\ got' = deployments
  /\ UNCHANGED <<resources, resources_by_type, deployments, agent_memories, disk, kb_lock,
                 loadVars, returned>>
  /\ UNCHANGED orchVars

\* the stored list after the caller of get_deployments has changed the list
\* it got to `edited`: line 171 gave it another list object
after_edit(stored, edited) == stored

\* the caller of get_deployments changes the list it got: the first record
\* is removed, or the list reversed
edit_got ==
  /\ got # <<>>
  /\ \E edited \in {Tail(got), [i \in 1..Len(got) |-> got[Len(got) + 1 - i]]} :
       /\ got' = edited
       /\ deployments' = after_edit(deployments, edited)
  /\ UNCHANGED <<resources, resources_by_type, agent_memories, disk, kb_lock, loadVars, returned>>
  /\ UNCHANGED orchVars

\* KnowledgeBase.save called by a client of the store: no lock is taken
save ==
  /\ \E outcome \in SaveOutcomes :
       disk' = saved(disk, resources, deployments, agent_memories, outcome)
  /\ UNCHANGED <<resources, resources_by_type, deployments, agent_memories, kb_lock,
                 loadVars, returned, got>>
  /\ UNCHANGED orchVars

\* the process ends and a new one constructs KnowledgeBase(db_path): the
\* empty store, loaded from the file when there is one
restart ==
  /\ disk.kind # "unused"
  /\ load_pc = "idle"
  /\ LET m == constructed(disk)
     IN /\ resources' = m.resources
        /\ resources_by_type' = m.resources_by_type
        /\ deployments' = m.deployments
        /\ agent_memories' = m.agent_memories
  /\ kb_lock' = Nobody
  /\ returned' = deployment_record(None)
  /\ got' = <<>>
  /\ UNCHANGED <<disk, loadVars>>
  /\ UNCHANGED orchVars

\* KnowledgeBase.load called on the running store, lines 216-218: no lock is
\* taken; open or json.load raises, or `resources` is replaced
load_open ==
  /\ load_pc = "idle"
  /\ IF disk.kind # "document"
     THEN UNCHANGED <<resources, loadVars>>
     ELSE /\ data' = disk
          /\ resources' = [id \in ResourceIds |-> from_json(disk.resources[id])]
          /\ load_pc' = "clear"
          /\ UNCHANGED <<load_next, load_used>>
  /\ UNCHANGED <<resources_by_type, deployments, agent_memories, disk, kb_lock, returned, got>>
  /\ UNCHANGED orchVars

\* load, line 219 and the start of the loop of line 222
load_clear ==
  /\ load_pc = "clear"
  /\ resources_by_type' = EmptyIndex
  /\ load_next' = ascending(resource_ids(resources))
  /\ load_used' = Cardinality(resource_ids(resources))
  /\ load_pc' = "index"
  /\ UNCHANGED <<resources, deployments, agent_memories, disk, kb_lock, data, returned, got>>
  /\ UNCHANGED orchVars

\* what load keeps once it has returned
load_return ==
  /\ load_pc' = "idle"
  /\ data' = Unused
  /\ load_next' = <<>>
  /\ load_used' = 0

\* load, lines 222-229: one turn of the loop, which raises when the dict has
\* grown since the loop began or the record has no type; after the last turn
\* deployments and agent_memories are assigned
load_index ==
  /\ load_pc = "index"
  /\ IF Cardinality(resource_ids(resources)) # load_used
     THEN /\ load_return
          /\ UNCHANGED <<resources_by_type, deployments, agent_memories>>
     ELSE IF load_next = <<>>
     THEN /\ deployments' = [i \in 1..Len(data.deployments) |->
                               deployment_from_json(data.deployments[i])]
          /\ agent_memories' = data.agent_memories
          /\ load_return
          /\ UNCHANGED resources_by_type
     ELSE LET built == rebuild(resources_by_type, resources, <<Head(load_next)>>)
          IN IF built.raised
             THEN /\ load_return
                  /\ UNCHANGED <<resources_by_type, deployments, agent_memories>>
             ELSE /\ resources_by_type' = built.index
                  /\ load_next' = Tail(load_next)
                  /\ UNCHANGED <<load_pc, data, load_used, deployments, agent_memories>>
  /\ UNCHANGED <<resources, disk, kb_lock, returned, got>>
  /\ UNCHANGED orchVars

\* a thread enters the `with self.lock:` block of get_resource or
\* get_resources_by_type
read_begin ==
  /\ kb_lock = Nobody
  /\ kb_lock' = "reader"
  /\ UNCHANGED <<resources, resources_by_type, deployments, agent_memories, disk, loadVars,
                 returned, got>>
  /\ UNCHANGED orchVars

\* and leaves it
read_end ==
  /\ kb_lock = "reader"
  /\ kb_lock' = Nobody
  /\ UNCHANGED <<resources, resources_by_type, deployments, agent_memories, disk, loadVars,
                 returned, got>>
  /\ UNCHANGED orchVars

\* ------------------------------------------------------------ specifications
Caller(c) ==
  \/ \E p \in Plans, async \in BOOLEAN : execute_plan(c, p, async)
  \/ execute_plan_thread(c)
  \/ thread_start(c)
  \/ execute_plan_return(c)
  \/ \E id \in PlanIds : get_plan_status(c, id)

Driver(th) ==
  \/ execute_plan_begin(th)
  \/ loop_select(th)
  \/ loop_finish(th)
  \/ task_start(th)
  \/ agent_execute_task(th)
  \/ task_finish(th)
  \/ archive(th)
  \/ cleanup(th)

Next ==
  \/ \E c \in Callers : Caller(c)
  \/ \E th \in Threads : Driver(th)
  \/ \E w \in Workers : thread_except(w)

\* with one driver per plan id the handler of _execute_plan_thread is never entered
NextSingle ==
  \/ \E c \in Callers : Caller(c)
  \/ \E th \in Threads : Driver(th)

Spec == Init /\ [][Next]_vars

\* No plan yet; the KnowledgeBase is empty or holds one resource.  The caller
\* creates plans as the clock goes on, and may hand one of them to execute_plan.
InitCreate ==
  /\ now = 1
  /\ plan_id = <<>>
  /\ description = <<>>
  /\ depends_on = <<>>
  /\ agent_type = <<>>
  /\ \/ kb_init
     \/ /\ resources = [id \in ResourceIds |->
                          IF id = 1 THEN resource_record("ec2_instance", 1, 1)
                          ELSE NoResource]
        /\ resources_by_type = index_put([t \in ResourceTypes |->
                                            [id \in ResourceIds |-> NoResource]],
                                         "ec2_instance", 1, 1)
        /\ deployments = <<>>
        /\ agent_memories = EmptyMemories
        /\ disk = Unused
        /\ store_idle
  /\ InitRest(Callers, 1)

NextCreate ==
  \/ \E c \in Callers : \E request \in Requests : create_plan(c, request)
  \/ Tick
  \/ NextSingle

SpecCreate == InitCreate /\ [][NextCreate]_vars

\* The KnowledgeBase alone: any sequence of register_resource calls.
InitKB ==
  /\ now = 1
  /\ plan_id = <<>>
  /\ description = <<>>
  /\ depends_on = <<>>
  /\ agent_type = <<>>
  /\ kb_init
  /\ InitRest(Callers, 0)

NextKB ==
  \E type \in ResourceTypes : \E id \in ResourceIds : \E metadata \in Metadata :
    register_resource(type, id, metadata)

SpecKB == InitKB /\ [][NextKB]_vars

\* The store without db_path, and one plan of create_plan with an
\* infrastructure and a deployment task, which a caller may hand to
\* execute_plan once.
InitStore ==
  /\ now = 1
  /\ plan_id = <<1>>
  /\ description = <<ChainRequest(2)>>
  /\ depends_on = <<ChainDeps(2)>>
  /\ agent_type = <<ChainTypes(2)>>
  /\ kb_init
  /\ InitRest(Callers, 1)

\* The Orchestrator executes the plan, whose agents register a resource
\* and a deployment, while other threads register deployments and read them;
\* the caller of get_deployments may change the list it got.
NextStore ==
  \/ \E deployment_info \in DeploymentInfos : register_deployment(deployment_info)
  \/ get_deployments
  \/ edit_got
  \/ NextSingle

SpecStore == InitStore /\ [][NextStore]_vars

\* a document whose second resource has no key "type", with one deployment
\* and one agent memory
MalformedDocument ==
  [kind |-> "document",
   resources |-> [id \in ResourceIds |->
                    IF id = 1 THEN to_json(resource_record("ec2_instance", 1, 1))
                    ELSE IF id = 2 THEN <<Missing, 2, 1>> ELSE <<>>],
   deployments |-> <<deployment_to_json(deployment_record(1))>>,
   agent_memories |-> [a \in MemoryAgents |-> 1]]

\* what a process may find at db_path when it starts
InitialFiles == {NoFile, Garbage, MalformedDocument}

\* KnowledgeBase(db_path) constructed over one of the files given; no plan
InitPersist(files) ==
  /\ now = 1
  /\ plan_id = <<>>
  /\ description = <<>>
  /\ depends_on = <<>>
  /\ agent_type = <<>>
  /\ disk \in files
  /\ store_is(constructed(disk))
  /\ store_idle
  /\ InitRest(Callers, 0)

\* A store with a db_path and no file yet: resources are registered (each
\* call saves, and the save may fail), save() is called, and the process is
\* restarted over the file.
NextRoundTrip ==
  \/ \E type \in ResourceTypes : \E id \in ResourceIds : \E metadata \in Metadata :
       register_resource(type, id, metadata)
  \/ save
  \/ restart

SpecRoundTrip == InitPersist({NoFile}) /\ [][NextRoundTrip]_vars

\* A store constructed over any file: deployments and agent memories are
\* registered, save() is called, and the process is restarted over the file.
NextPersist ==
  \/ \E deployment_info \in DeploymentInfos : register_deployment(deployment_info)
  \/ \E agent \in MemoryAgents : \E value \in Metadata : update_agent_memory(agent, value)
  \/ save
  \/ restart

SpecPersist == InitPersist(InitialFiles) /\ [][NextPersist]_vars

\* A running store with a db_path: one thread registers resources, one calls
\* load(), one reads inside the lock.
NextLoad ==
  \/ \E type \in ResourceTypes : \E id \in ResourceIds : \E metadata \in Metadata :
       register_resource(type, id, metadata)
  \/ load_open
  \/ load_clear
  \/ load_index
  \/ read_begin
  \/ read_end

SpecLoad == InitPersist({NoFile}) /\ [][NextLoad]_vars

\* main.py: run_ec2_instance is called again and again, the EC2 client
\* ending each time in any of its ways
run_ec2_instance ==
  /\ \E outcome \in Responses :
       /\ response' = outcome
       /\ reply' = run_ec2_instance_text(outcome)
  /\ UNCHANGED <<appVars, sideVars, now, planVars, taskVars, plan_status, regVars,
                 execution_history, kbVars, lock, pc, localVars, callerVars>>

SpecMain == InitKB /\ [][run_ec2_instance]_vars

\* ------------------------------------------------------------------- app.py
\* the thread that serves GET /resources?type=...
Reader == NCallers + MaxCalls + 1

\* the variables app.py leaves alone in a step of its own
underApp == <<response, reply, sideVars, now, planVars, taskVars, plan_status, regVars, execution_history,
              kbVars, lock, pc, localVars, callerVars>>

\* a request for /process or /plans/<plan_id> arrives at a thread
request_arrives(c) ==
  /\ pc[c] = "idle"
  /\ app_pc[c] = "none"
  /\ app_pc' = [app_pc EXCEPT ![c] = "arrived"]
  /\ UNCHANGED <<app_lock, reader_pc, underApp>>

\* process_request line 107, get_plan line 142: `with orchestrator_lock:`
with_orchestrator_lock(c) ==
  /\ app_pc[c] = "arrived"
  /\ app_lock = None
  /\ app_lock' = c
  /\ app_pc' = [app_pc EXCEPT ![c] = "entered"]
  /\ UNCHANGED <<reader_pc, underApp>>

\* process_request, lines 109-124: the plan the handler has just created is
\* handed to execute_plan inside the block
process_request(c, p, async) ==
  /\ app_pc[c] = "entered"
  /\ handed[p] = 0
  /\ execute_plan_register(c, p, async)
  /\ app_pc' = [app_pc EXCEPT ![c] = "called"]
  /\ UNCHANGED <<response, reply, sideVars, app_lock, reader_pc>>

\* get_plan, line 143: orchestrator.get_plan_status(plan_id) inside the block
get_plan(c, id) ==
  /\ app_pc[c] = "entered"
  /\ active_plans_get(c, id)
  /\ app_pc' = [app_pc EXCEPT ![c] = "called"]
  /\ UNCHANGED <<response, reply, sideVars, app_lock, reader_pc>>

\* the handler leaves the block: execute_plan or get_plan_status has
\* returned, or raised
orchestrator_lock_release(c) ==
  /\ app_pc[c] = "called"
  /\ pc[c] = "idle"
  /\ app_lock' = None
  /\ app_pc' = [app_pc EXCEPT ![c] = "none"]
  /\ UNCHANGED <<reader_pc, underApp>>

\* a request for /resources?type=... arrives at the Reader
list_resources_arrives ==
  /\ reader_pc = "idle"
  /\ reader_pc' = "arrived"
  /\ UNCHANGED <<app_lock, app_pc, underApp>>

\* list_resources, line 159: `with orchestrator_lock:`
list_resources_enter ==
  /\ reader_pc = "arrived"
  /\ app_lock = None
  /\ app_lock' = Reader
  /\ reader_pc' = "entered"
  /\ UNCHANGED <<app_pc, underApp>>

\* list_resources, line 161: get_resources_by_type enters the `with
\* self.lock:` block of the KnowledgeBase
list_resources_read ==
  /\ reader_pc = "entered"
  /\ kb_lock = Nobody
  /\ kb_lock' = "reader"
  /\ reader_pc' = "reading"
  /\ UNCHANGED <<app_lock, app_pc, response, reply, sideVars, now, planVars, taskVars, plan_status, regVars, execution_history,
                 lock, pc, localVars, callerVars, resources, resources_by_type,
                 deployments, agent_memories, disk, loadVars, returned, got>>

\* get_resources_by_type returns: the block of the KnowledgeBase is left
list_resources_got ==
  /\ reader_pc = "reading"
  /\ kb_lock' = Nobody
  /\ reader_pc' = "read"
  /\ UNCHANGED <<app_lock, app_pc, response, reply, sideVars, now, planVars, taskVars, plan_status, regVars, execution_history,
                 lock, pc, localVars, callerVars, resources, resources_by_type,
                 deployments, agent_memories, disk, loadVars, returned, got>>

\* list_resources leaves the block of orchestrator_lock
list_resources_leave ==
  /\ reader_pc = "read"
  /\ app_lock' = None
  /\ reader_pc' = "idle"
  /\ UNCHANGED <<app_pc, underApp>>

\* The Flask application: a thread serves /process (synchronous or not, each
\* with a plan of its own) and /plans/<plan_id>, another /resources; the
\* background threads execute the plans.
NextLocks ==
  \/ \E c \in Callers :
       \/ request_arrives(c)
       \/ with_orchestrator_lock(c)
       \/ \E p \in Plans, async \in BOOLEAN : process_request(c, p, async)
       \/ \E id \in PlanIds : get_plan(c, id)
       \/ execute_plan_thread(c)
       \/ thread_start(c)
       \/ execute_plan_return(c)
       \/ orchestrator_lock_release(c)
  \/ \E th \in Threads : Driver(th)
  \/ \E w \in Workers : thread_except(w)
  \/ list_resources_arrives
  \/ list_resources_enter
  \/ list_resources_read
  \/ list_resources_got
  \/ list_resources_leave

SpecLocks == Init /\ [][NextLocks]_vars

\* ------------------------------------- the conversational agent (main.py)
\* main.py line 53: config={"recursion_limit": 10}
recursion_limit == 10

\* the variables the agent graph leaves alone
underAgent == <<response, reply, appVars, now, planVars, taskVars, plan_status, regVars,
                execution_history, kbVars, lock, pc, localVars, callerVars, mcpVars,
                toolsVars>>

\* main(), lines 39-56: the user's message is appended and the graph invoked
\* with the state the last invocation returned
user_says(text) ==
  /\ node = "user"
  /\ last_message' = HumanMessage(text)
  /\ node' = "llm"
  /\ steps' = 0
  /\ turn_reply' = [text |-> text, awaited |-> is_awaiting_confirmation]
  /\ released' = 0
  /\ UNCHANGED <<module, pending_action_details, is_awaiting_confirmation, llm_called, proposed>>
  /\ UNCHANGED underAgent

\* the node llm and its conditional edge should_continue
llm_node ==
  /\ node = "llm"
  /\ steps < recursion_limit
  /\ \E resp \in LlmResponses(tools_withheld(module, last_message)) :
       LET answered == is_awaiting_confirmation /\ last_message.type = "human"
           r == IF answered
                THEN confirmation_reply(pending_action_details, last_message.content)
                ELSE llm_call(module, last_message, pending_action_details,
                              is_awaiting_confirmation, resp)
           action == pending_action_to_confirm(module, resp.tool_calls)
       IN /\ last_message' = r.message
          /\ pending_action_details' = r.pending_action_details
          /\ is_awaiting_confirmation' = r.is_awaiting_confirmation
          /\ llm_called' = r.llm_called
          /\ node' = should_continue(r.is_awaiting_confirmation, r.message)
          /\ proposed' = IF answered THEN NoAction
                         ELSE IF resp.kind = "message" /\ action # NoAction THEN action
                         ELSE proposed
  /\ steps' = steps + 1
  /\ UNCHANGED <<module, turn_reply, released>>
  /\ UNCHANGED underAgent

\* the tools the ToolNode of the module holds: agent.py has one, agent_mcp
\* those of the server
known_tool(m, tool_name) == m = "agent_mcp" \/ tool_name = "create_ec2_instance_tool"

\* the node tools: every tool call of the last message is run and answered
\* by a ToolMessage, the last of which is the last message; then the edge to llm
tools_node ==
  /\ node = "tools"
  /\ steps < recursion_limit
  /\ LET calls == last_message.tool_calls
         last == calls[Len(calls)]
     IN /\ \E result \in ToolResults :
             /\ known_tool(module, last.name) \/ result = "error"
             /\ last_message' = ToolMessage(last.name, result)
        /\ released' = released + critical_calls(module, calls)
  /\ node' = "llm"
  /\ steps' = steps + 1
  /\ UNCHANGED <<module, pending_action_details, is_awaiting_confirmation, llm_called,
                 turn_reply, proposed>>
  /\ UNCHANGED underAgent

\* the graph has run recursion_limit nodes and not ended: GraphRecursionError,
\* which main() does not catch
recursion_error ==
  /\ node \in {"llm", "tools"}
  /\ steps = recursion_limit
  /\ node' = "crashed"
  /\ UNCHANGED <<module, last_message, pending_action_details, is_awaiting_confirmation,
                 steps, llm_called, turn_reply, released, proposed>>
  /\ UNCHANGED underAgent

\* The conversation of main(): one of the two agent modules, any messages
\* of the user, any responses of the LLM, any results of the tools.
InitAgent ==
  /\ now = 1
  /\ plan_id = <<>>
  /\ description = <<>>
  /\ depends_on = <<>>
  /\ agent_type = <<>>
  /\ kb_init
  /\ InitWith(Callers, 0, Modules)

NextAgent ==
  \/ \E text \in UserTexts : user_says(text)
  \/ llm_node
  \/ tools_node
  \/ recursion_error

SpecAgent == InitAgent /\ [][NextAgent]_vars

\* ------------------------------- calls of execute_tool_via_mcp (agent_mcp)
\* the variables execute_tool_via_mcp leaves alone
underMcp == <<response, reply, appVars, now, planVars, taskVars, plan_status, regVars,
              execution_history, kbVars, lock, pc, localVars, callerVars, agentVars,
              toolsVars>>

\* lines 69-76: a tool function of load_mcp_tools (line 229) calls it
execute_tool_via_mcp(tool_name) ==
  /\ mcp_pc \in {"idle", "returned"}
  /\ mcp_pc' = "loop"
  /\ mcp_tool' = tool_name
  /\ attempt' = 1
  /\ backoff' = 1
  /\ requests_sent' = 0
  /\ slept' = <<>>
  /\ last_outcome' = NoOutcome
  /\ mcp_result' = NoText
  /\ UNCHANGED <<MCP_SERVER_URL, underMcp>>

\* lines 82-83: without a URL the call returns before any request
url_not_configured ==
  /\ mcp_pc = "loop"
  /\ MCP_SERVER_URL = ""
  /\ mcp_pc' = "returned"
  /\ mcp_result' = Text("not_configured", mcp_tool)
  /\ UNCHANGED <<MCP_SERVER_URL, mcp_tool, attempt, backoff, requests_sent, slept,
                 last_outcome, underMcp>>

\* lines 78-156: one pass of the loop body, with the sleep of a retry; when
\* the loop ends after a `continue` the function returns None
loop_attempt(o) ==
  /\ mcp_pc = "loop"
  /\ MCP_SERVER_URL # ""
  /\ requests_sent' = requests_sent + 1
  /\ last_outcome' = o
  /\ IF retried(branch(o)) /\ may_retry(attempt)
     THEN /\ slept' = Append(slept, backoff)
          /\ backoff' = backoff * 2
          /\ IF attempt + 1 <= max_retries
             THEN /\ attempt' = attempt + 1
                  /\ UNCHANGED <<mcp_pc, mcp_result>>
             ELSE /\ mcp_pc' = "returned"
                  /\ mcp_result' = NoText
                  /\ UNCHANGED attempt
     ELSE /\ mcp_pc' = "returned"
          /\ mcp_result' = Text(branch(o), mcp_tool)
          /\ UNCHANGED <<attempt, backoff, slept>>
  /\ UNCHANGED <<MCP_SERVER_URL, mcp_tool, underMcp>>

\* Calls of execute_tool_via_mcp, one after the other, with any tool name,
\* any URL setting and any behaviour of the server.
InitMcp ==
  /\ now = 1
  /\ plan_id = <<>>
  /\ description = <<>>
  /\ depends_on = <<>>
  /\ agent_type = <<>>
  /\ kb_init
  /\ InitOrchestrator(Callers, 0)
  /\ InitSides({"agent_mcp"}, McpUrls)

NextMcp ==
  \/ \E tool_name \in CRITICAL_TOOLS : execute_tool_via_mcp(tool_name)
  \/ url_not_configured
  \/ \E o \in Outcomes : loop_attempt(o)

SpecMcp == InitMcp /\ [][NextMcp]_vars

\* every request ends (with a response or raising), and the call goes on
FairMcp == SpecMcp /\ WF_vars(url_not_configured \/ \E o \in Outcomes : loop_attempt(o))

\* ------------------------- calls of reload_mcp_tools_if_needed (agent_mcp)
\* the variables reload_mcp_tools_if_needed leaves alone
underTools == <<response, reply, appVars, now, planVars, taskVars, plan_status, regVars,
                execution_history, kbVars, lock, pc, localVars, callerVars, agentVars,
                mcpVars>>

\* line 294: a thread calls, and reaches the with statement
reload_mcp_tools_if_needed(th, f) ==
  /\ reload_pc[th] = "idle"
  /\ reload_pc' = [reload_pc EXCEPT ![th] = "with"]
  /\ force' = [force EXCEPT ![th] = f]
  /\ new_tools' = [new_tools EXCEPT ![th] = <<>>]
  /\ UNCHANGED <<MCP_LC_TOOLS, last_tools_update_time, tools_load_lock, current_time,
                 returned_tools, tools_loaded, clock, underTools>>

\* lines 305-313: the lock is taken, the time read and the condition decided
tools_load_lock_acquire(th) ==
  /\ reload_pc[th] = "with"
  /\ tools_load_lock = "free"
  /\ tools_load_lock' = th
  /\ current_time' = [current_time EXCEPT ![th] = clock]
  /\ reload_pc' = [reload_pc EXCEPT ![th] = IF load_needed(force[th]) THEN "load" ELSE "skip"]
  /\ UNCHANGED <<MCP_LC_TOOLS, last_tools_update_time, force, new_tools, returned_tools,
                 tools_loaded, clock, underTools>>

\* line 315: load_mcp_tools() returns
load_mcp_tools(th, tools) ==
  /\ reload_pc[th] = "load"
  /\ new_tools' = [new_tools EXCEPT ![th] = tools]
  /\ reload_pc' = [reload_pc EXCEPT ![th] = "loaded"]
  /\ UNCHANGED <<MCP_LC_TOOLS, last_tools_update_time, tools_load_lock, force, current_time,
                 returned_tools, tools_loaded, clock, underTools>>

\* lines 317-326 and the end of the with block
tools_update(th) ==
  /\ reload_pc[th] = "loaded"
  /\ MCP_LC_TOOLS' = tools_kept_if_empty(new_tools[th], MCP_LC_TOOLS)
  /\ last_tools_update_time' =
       IF new_tools[th] # <<>> THEN current_time[th] ELSE last_tools_update_time
  /\ tools_loaded' = (tools_loaded \/ new_tools[th] # <<>>)
  /\ tools_load_lock' = "free"
  /\ reload_pc' = [reload_pc EXCEPT ![th] = "return"]
  /\ UNCHANGED <<force, current_time, new_tools, returned_tools, clock, underTools>>

\* the end of the with block when line 313 is false
tools_load_lock_release(th) ==
  /\ reload_pc[th] = "skip"
  /\ tools_load_lock' = "free"
  /\ reload_pc' = [reload_pc EXCEPT ![th] = "return"]
  /\ UNCHANGED <<MCP_LC_TOOLS, last_tools_update_time, force, current_time, new_tools,
                 returned_tools, tools_loaded, clock, underTools>>

\* line 328, outside the lock
reload_return(th) ==
  /\ reload_pc[th] = "return"
  /\ returned_tools' = [returned_tools EXCEPT ![th] = MCP_LC_TOOLS]
  /\ reload_pc' = [reload_pc EXCEPT ![th] = "idle"]
  /\ UNCHANGED <<MCP_LC_TOOLS, last_tools_update_time, tools_load_lock, force, current_time,
                 new_tools, tools_loaded, clock, underTools>>

\* time passes
clock_tick ==
  /\ clock < MaxClock
  /\ clock' = clock + 1
  /\ UNCHANGED <<MCP_LC_TOOLS, last_tools_update_time, tools_load_lock, reload_pc, force,
                 current_time, new_tools, returned_tools, tools_loaded, underTools>>

\* The monitor thread and the main thread call reload_mcp_tools_if_needed
\* any number of times, the server listing any tools or failing.
InitTools ==
  /\ now = 1
  /\ plan_id = <<>>
  /\ description = <<>>
  /\ depends_on = <<>>
  /\ agent_type = <<>>
  /\ kb_init
  /\ InitOrchestrator(Callers, 0)
  /\ InitSides({"agent_mcp"}, {"http://localhost:8000"})

NextTools ==
  \/ \E th \in ReloadThreads : \E f \in Forces(th) : reload_mcp_tools_if_needed(th, f)
  \/ \E th \in ReloadThreads : tools_load_lock_acquire(th)
  \/ \E th \in ReloadThreads : \E tools \in ToolLists : load_mcp_tools(th, tools)
  \/ \E th \in ReloadThreads : tools_update(th)
  \/ \E th \in ReloadThreads : tools_load_lock_release(th)
  \/ \E th \in ReloadThreads : reload_return(th)
  \/ clock_tick

SpecTools == InitTools /\ [][NextTools]_vars

SpecGraph == InitGraph /\ [][NextSingle]_vars

\* Fair scheduling of the threads: a thread inside _execute_plan goes on (an
\* agent call returns or raises), a caller inside execute_plan goes on, and a
\* caller that polls keeps polling.
Fairness ==
  /\ \A th \in Threads : WF_vars(Driver(th))
  /\ \A c \in Callers :
       /\ WF_vars(execute_plan_thread(c) \/ thread_start(c) \/ execute_plan_return(c))
       /\ \A id \in PlanIds : WF_vars(get_plan_status(c, id))

FairGraph == SpecGraph /\ Fairness

\* ------------------------------------------------------------------ claims
Range(seq) == {seq[i] : i \in 1..Len(seq)}

\* the positions of a thread inside the while loop of _execute_plan
InLoop == {"loop", "loop_empty", "dispatch", "in_task", "agent_returned"}

\* thread th is a driver of plan p: it executes the loop of _execute_plan on p
Drives(th, p) == pc[th] \in InLoop /\ plan_local[th] = p

\* a driver of plan p has left the loop
LoopExited(p) ==
  \/ \E th \in Threads : pc[th] \in {"archive", "cleanup"} /\ plan_local[th] = p
  \/ p \in Range(execution_history)

\* the tasks of p reached from the ids in S by following depends_on, k times at most
RECURSIVE Reached(_, _, _)
Reached(p, S, k) ==
  IF k = 0 THEN S \cap Tasks(p)
  ELSE LET R == Reached(p, S, k - 1)
       IN R \cup (UNION {depends_on[p][t] : t \in R} \cap Tasks(p))

\* task t of p depends, directly or not, on itself
OnCycle(p, t) == t \in Reached(p, depends_on[p][t], Cardinality(Tasks(p)))
HasCycle(p) == \E t \in Tasks(p) : OnCycle(p, t)

\* p is a linear chain: task i depends on task i-1 and on nothing else
IsChain(p) == depends_on[p] = ChainDeps(Cardinality(Tasks(p)))

\* C1: a task enters `running` only in a state in which every id of its
\* depends_on is the id of a task of its plan whose status is `completed`.
C1_StartsAfterDependencies ==
  [][\A p \in Plans : \A t \in Tasks(p) :
       (task_status[p][t] # "running" /\ task_status'[p][t] = "running")
       => \A dep \in depends_on[p][t] :
            dep \in Tasks(p) /\ task_status[p][dep] = "completed"]_vars

\* C1 witness: a task that has a dependency is running.
C1_Witness ==
  \E p \in Plans : \E t \in Tasks(p) :
    task_status[p][t] = "running" /\ depends_on[p][t] # {}

\* C2: a thread that is in the loop of _execute_plan leaves it, whatever the
\* dependency graph; and when the graph has a cycle among tasks, the plan is
\* `failed` once its driver has left the loop.
C2_LoopTerminates ==
  /\ \A th \in Threads : (pc[th] \in InLoop) ~> (pc[th] \notin InLoop)
  /\ [](\A p \in Plans : (LoopExited(p) /\ HasCycle(p)) => plan_status[p] = "failed")

\* C2 witness: the driver of a plan with a cycle of two or three tasks (no
\* self-dependency), one task of which is outside the cycle and completed,
\* has left the loop.
C2_Witness ==
  \E p \in Plans :
    /\ LoopExited(p)
    /\ \E t \in Tasks(p) : OnCycle(p, t) /\ t \notin depends_on[p][t]
    /\ \E t \in Tasks(p) : task_status[p][t] = "completed"

\* C3: get_next_runnable_tasks returns, in plan order and without repetition,
\* exactly the tasks that are `pending` and whose every dependency id is the
\* id of a `completed` task of the plan.
C3_RunnableExactly ==
  \A p \in Plans :
    LET r == get_next_runnable_tasks(p) IN
    /\ \A i, j \in 1..Len(r) : i < j => r[i] < r[j]
    /\ \A t \in Tasks(p) :
         (\E i \in 1..Len(r) : r[i] = t)
         <=> /\ task_status[p][t] = "pending"
             /\ \A dep \in depends_on[p][t] :
                  \E u \in Tasks(p) : u = dep /\ task_status[p][u] = "completed"

\* C3 witness: a task whose dependency is completed is returned and another
\* pending task of the plan is not.
C3_Witness ==
  \E p \in Plans :
    /\ \E t \in Range(get_next_runnable_tasks(p)) :
         \E dep \in depends_on[p][t] :
           dep \in Tasks(p) /\ task_status[p][dep] = "completed"
    /\ \E t \in Tasks(p) :
         task_status[p][t] = "pending" /\ t \notin Range(get_next_runnable_tasks(p))

\* C4: in a linear chain, when the agent call of a task k that is not the
\* last one has failed and the driver has left the loop: the tasks before k
\* are `completed`, k is `failed`, the tasks after k are `pending` and no
\* agent was called for them, and the plan is `failed`.
C4_ChainStopsAtFailure ==
  \A p \in Plans : \A k \in Tasks(p) :
    ( /\ IsChain(p)
      /\ LoopExited(p)
      /\ k < Cardinality(Tasks(p))
      /\ task_result[p][k] = "error" )
    => /\ \A j \in Tasks(p) : j < k => task_status[p][j] = "completed"
       /\ task_status[p][k] = "failed"
       /\ \A j \in Tasks(p) :
            j > k => /\ task_status[p][j] = "pending"
                     /\ invoked[p][j] = 0
                     /\ task_result[p][j] = "none"
       /\ plan_status[p] = "failed"

\* C4 witness (scenario B): a chain of three tasks whose second task failed
\* in its agent; the driver has left the loop.
C4_Witness ==
  \E p \in Plans :
    /\ IsChain(p)
    /\ Cardinality(Tasks(p)) = 3
    /\ LoopExited(p)
    /\ task_status[p][1] = "completed"
    /\ task_result[p][2] = "error"
    /\ invoked[p][2] = 1

\* C5: the status of a task changes only from `pending` to `running` and
\* from `running` to `completed` or `failed`, under any interleaving of
\* execute_plan calls.
C5_StatusTransitions ==
  [][\A p \in Plans : \A t \in Tasks(p) :
       task_status'[p][t] # task_status[p][t]
       => <<task_status[p][t], task_status'[p][t]>> \in
            {<<"pending", "running">>, <<"running", "completed">>,
             <<"running", "failed">>}]_vars

\* C6: a task that has been `completed` or `failed` is in the result of
\* get_next_runnable_tasks in no later state.
C6_TerminalNeverSelected ==
  \A p \in Plans : \A t \in Tasks(p) :
    was_terminal[p][t] => t \notin Range(get_next_runnable_tasks(p))

\* C6 witness: a scheduling pass made after a task completed has selected
\* another task of the plan, while a second driver has not yet dispatched
\* the completed task it had selected earlier.
C6_Witness ==
  \E p \in Plans : \E t \in Tasks(p) : \E th, other \in Threads :
    /\ was_terminal[p][t]
    /\ task_status[p][t] = "completed"
    /\ plan_local[th] = p /\ pc[th] = "dispatch" /\ t \notin Range(next_tasks[th])
    /\ plan_local[other] = p /\ pc[other] = "dispatch" /\ t \in Range(next_tasks[other])

\* C7: at most one thread executes the loop of _execute_plan on a given plan
\* object.
C7_OneDriverPerPlan ==
  \A p \in Plans : Cardinality({th \in Threads : Drives(th, p)}) <= 1

\* C8: when a synchronous execute_plan(p) returns, it returns p and p is
\* `completed` or `failed` (stated for a plan p handed to execute_plan once;
\* other plans may be executed at the same time).
C8_SyncReturnsTerminal ==
  [][\A c \in Callers :
       (pc[c] = "cleanup" /\ pc'[c] = "idle" /\ handed[call[c].plan] = 1)
       => /\ returned_plan(c) = call[c].plan
          /\ plan_status[call[c].plan] \in Terminal]_vars

\* C9: when an asynchronous execute_plan(p) returns, p is `running`.
C9_AsyncReturnsRunning ==
  [][\A c \in Callers :
       (pc[c] = "exec_return" /\ pc'[c] = "idle")
       => plan_status[call[c].plan] = "running"]_vars

\* C10: after an asynchronous execute_plan of a plan none of whose tasks
\* fails, the polling caller eventually holds, as the result of
\* get_plan_status, the plan with status `completed`.
C10_PollSeesCompleted ==
  \A c \in Callers : \A p \in 1..NPlans :
    (pc[c] = "exec_return" /\ call[c].plan = p)
    ~> /\ p \in Plans
       /\ \/ poll = p /\ plan_status[p] = "completed"
          \/ plan_status[p] = "failed"
          \/ \E t \in Tasks(p) : task_status[p][t] = "failed"

\* every plan object was handed to execute_plan once at most
HandedOnce == \A p \in Plans : handed[p] <= 1

\* C11: when a driver of plan p has left the scheduling loop, p is `completed`
\* or `failed`: `completed` exactly when every task is `completed` or `failed`,
\* `failed` exactly when some task is still `pending` (stated for runs in which
\* no plan object is handed to execute_plan twice).
C11_ExitStatusRule ==
  HandedOnce =>
    \A th \in Threads : \A p \in Plans :
      (pc[th] \in {"archive", "cleanup"} /\ plan_local[th] = p)
      => /\ plan_status[p] \in Terminal
         /\ plan_status[p] = "completed" <=> is_complete(p)
         /\ plan_status[p] = "failed"
              <=> \E t \in Tasks(p) : task_status[p][t] = "pending"

\* the number of entries of execution_history that are plan p
Archived(p) == Cardinality({i \in 1..Len(execution_history) : execution_history[i] = p})

\* plan p was handed to execute_plan and no thread is any longer inside
\* execute_plan or _execute_plan for its id
DriverFinished(p) ==
  /\ handed[p] >= 1
  /\ \A th \in Threads : plan_id_arg[th] # plan_id[p]

\* C12: a plan handed to execute_plan is, once its driver has finished, exactly
\* once in execution_history, not in active_plans and without an entry in
\* plan_threads; and an executed plan is never absent from active_plans
\* unless it is in execution_history (stated for runs in which no plan object
\* is handed to execute_plan twice).
C12_ArchivedOnceThenRemoved ==
  HandedOnce =>
    \A p \in Plans :
      /\ DriverFinished(p)
         => /\ Archived(p) = 1
            /\ active_plans[plan_id[p]] # p
            /\ plan_threads[plan_id[p]] = None
      /\ (handed[p] >= 1 /\ active_plans[plan_id[p]] # p) => Archived(p) >= 1

\* the tasks of p that task t depends on, directly or transitively
Ancestors(p, t) == Reached(p, depends_on[p][t], Cardinality(Tasks(p)))

\* task t of p depends on no failed task, directly or transitively
NoFailedAncestor(p, t) == \A a \in Ancestors(p, t) : task_status[p][a] # "failed"

\* the graph of p is acyclic and its depends_on name only tasks of p
WellFormed(p) ==
  /\ ~HasCycle(p)
  /\ \A t \in Tasks(p) : depends_on[p][t] \subseteq Tasks(p)

\* the step in which _execute_task returns: the thread stays in the loop of
\* _execute_plan, and a task whose agent call raised is `failed` with the
\* error as its result
TaskFailureContained ==
  \A th \in Threads :
    (pc[th] = "agent_returned" /\ pc'[th] # "agent_returned")
    => LET p == plan_local[th]
           t == Head(next_tasks[th])
       IN /\ pc'[th] \in {"loop", "dispatch"}
          /\ plan_local'[th] = p
          /\ task_status'[p][t] \in Terminal
          /\ task_result'[p][t] \in {"error", "no_agent"}
               <=> task_status'[p][t] = "failed"

\* C13 as stated: when an agent call has raised and the driver has left the
\* loop, every task that depends (directly or transitively) on no failed task
\* was dispatched and is `completed` or `failed`.
C13_EveryUnblockedTaskRuns ==
  \A p \in Plans :
    (LoopExited(p) /\ \E k \in Tasks(p) : task_result[p][k] = "error")
    => \A t \in Tasks(p) :
         NoFailedAncestor(p, t) => task_status[p][t] \in Terminal

\* C13 (amended): an exception of agent.execute_task stays inside
\* _execute_task: the task becomes `failed` with the error as result and the
\* thread goes on in the loop; and in a plan whose dependency graph is acyclic
\* and names only tasks of the plan, once the driver has left the loop every
\* task that depends on no failed task was dispatched and is terminal.
C13_RaiseIsContained ==
  /\ [][TaskFailureContained]_vars
  /\ [](\A p \in Plans :
          (LoopExited(p) /\ WellFormed(p))
          => \A t \in Tasks(p) :
               NoFailedAncestor(p, t)
               => /\ task_status[p][t] \in Terminal
                  /\ agent_found(p, t) => invoked[p][t] = 1)

\* C13 witness: the agent of a task without dependencies raised; a task with
\* a dependency, not depending on the failed one, was dispatched after that
\* and completed; the driver has left the loop.
C13_Witness ==
  \E p \in Plans : \E k, t \in Tasks(p) :
    /\ LoopExited(p) /\ WellFormed(p)
    /\ task_result[p][k] = "error" /\ depends_on[p][k] = {}
    /\ depends_on[p][t] # {} /\ NoFailedAncestor(p, t)
    /\ task_status[p][t] = "completed" /\ invoked[p][t] = 1

\* task k of p has an agent_type without a registered agent
Unregistered(p, k) == agent_type[p][k] \notin agents

\* C14 as stated: once the driver has left the loop, a dispatched task whose
\* agent_type has no registered agent is `failed` with an error as result and
\* without agent call, and every task that does not depend on it (directly or
\* transitively) was dispatched and is terminal.
C14_EveryOtherTaskRuns ==
  \A p \in Plans : \A k \in Tasks(p) :
    (LoopExited(p) /\ Unregistered(p, k) /\ task_status[p][k] # "pending")
    => /\ task_status[p][k] = "failed"
       /\ task_result[p][k] = "no_agent"
       /\ invoked[p][k] = 0
       /\ \A t \in Tasks(p) \ {k} :
            k \notin Ancestors(p, t) => task_status[p][t] \in Terminal

\* C14 (amended): a task whose agent_type has no registered agent is never
\* passed to an agent; when it is dispatched it becomes `failed` with the
\* error as result and the thread goes on in the loop; and in a plan whose
\* dependency graph is acyclic and names only tasks of the plan, once the
\* driver has left the loop every task that depends on no failed task is
\* terminal, the unregistered ones among them `failed`.
C14_NoAgentIsContained ==
  /\ [][\A th \in Threads :
          (pc[th] = "agent_returned" /\ Unregistered(plan_local[th], Head(next_tasks[th])))
          => LET p == plan_local[th]
                 k == Head(next_tasks[th])
             IN (pc'[th] # "agent_returned")
                => /\ pc'[th] \in {"loop", "dispatch"}
                   /\ task_status'[p][k] = "failed"
                   /\ task_result'[p][k] = "no_agent"]_vars
  /\ [](\A p \in Plans : \A k \in Tasks(p) :
          Unregistered(p, k)
          => /\ invoked[p][k] = 0
             /\ (LoopExited(p) /\ WellFormed(p) /\ NoFailedAncestor(p, k))
                => /\ task_status[p][k] = "failed"
                   /\ \A t \in Tasks(p) :
                        NoFailedAncestor(p, t) => task_status[p][t] \in Terminal)

\* C14 witness: a task of an unregistered type, without dependencies, failed
\* without agent call; a task with a dependency, not depending on it, was
\* dispatched after that and completed; the driver has left the loop.
C14_Witness ==
  \E p \in Plans : \E k, t \in Tasks(p) :
    /\ LoopExited(p) /\ WellFormed(p)
    /\ Unregistered(p, k) /\ depends_on[p][k] = {}
    /\ task_result[p][k] = "no_agent" /\ invoked[p][k] = 0
    /\ depends_on[p][t] # {} /\ k \notin Ancestors(p, t)
    /\ task_status[p][t] = "completed"

\* C15: a thread inside agent.execute_task does not own Orchestrator.lock; the
\* lock is owned only by a thread between the two halves of the block of
\* lines 496-512, so no agent call delays get_plan_status or execute_plan.
C15_NoLockDuringAgentCall ==
  /\ \A th \in Threads : pc[th] \in {"dispatch", "in_task", "agent_returned"} => lock # th
  /\ lock # None => pc[lock] = "loop_empty"

\* C15 witness: while one thread is inside an agent call, another thread is
\* inside a block of the lock.
C15_Witness ==
  \E th, other \in Threads :
    pc[th] = "in_task" /\ other # th /\ lock = other

\* C16: any two plans built by create_plan have different ids, so two plans
\* never share a key of active_plans.
C16_PlanIdsUnique ==
  \A p, q \in Plans : p # q => plan_id[p] # plan_id[q]

\* the place of agent type a in the registration order
Place(a) == CHOOSE i \in 1..Len(agent_order) : agent_order[i] = a

\* C17: for the request of every plan built, analyze_request returns the agent
\* types whose can_handle accepts the request, each once and in registration
\* order; when none accepts it, exactly <<infrastructure>>; never the empty list.
C17_AnalyzeRequest ==
  \A p \in Plans :
    LET request == description[p]
        required == analyze_request(request)
        able == {a \in Range(agent_order) : can_handle(a, request)}
    IN /\ Len(required) >= 1
       /\ Range(required) \subseteq Range(agent_order)
       /\ \A i, j \in 1..Len(required) : i < j => Place(required[i]) < Place(required[j])
       /\ able # {} => Range(required) = able
       /\ able = {} => required = <<"infrastructure">>

\* C17 witness: a plan was built for the empty text, and one for a text that
\* names the three agents in reverse order, one keyword in upper case and one
\* inside a longer word.
C17_Witness ==
  \E p, q \in Plans :
    /\ description[p] = <<>>
    /\ agent_type[p] = <<"infrastructure">>
    /\ description[q] = <<"catalog", "deploy", "EC2">>
    /\ agent_type[q] = agent_order

\* C18: a plan built by create_plan has one task per agent type returned by
\* analyze_request for its request, in that order, with task ids unique in the
\* plan; the first task has no dependency and every other task depends on
\* exactly the task before it; so the plan has a task, no cycle, and at most
\* one runnable task at any time.
C18_LinearChain ==
  \A p \in Plans :
    LET n == Cardinality(Tasks(p)) IN
    /\ agent_type[p] = analyze_request(description[p])
    /\ n = Len(analyze_request(description[p]))
    /\ \A t, u \in Tasks(p) : t # u => task_id(p, t) # task_id(p, u)
    /\ \A t \in Tasks(p) : depends_on[p][t] = IF t = 1 THEN {} ELSE {t - 1}
    /\ n >= 1
    /\ ~HasCycle(p)
    /\ Len(get_next_runnable_tasks(p)) <= 1

\* C18 witness: in a plan of three tasks built by create_plan the first task
\* is completed and the second is the one runnable task.
C18_Witness ==
  \E p \in Plans :
    /\ Cardinality(Tasks(p)) = 3
    /\ task_status[p][1] = "completed"
    /\ get_next_runnable_tasks(p) = <<2>>

\* C19: a create_plan call changes neither active_plans, plan_threads,
\* execution_history nor the resources of the KnowledgeBase, calls no agent and
\* changes no existing plan or task; the plan it returns and all its tasks are
\* `pending`, without result, never started or completed.
C19_CreatePlanIsPure ==
  [][Cardinality(DOMAIN plan_id') > Cardinality(Plans)
     => LET p == Cardinality(Plans) + 1 IN
        /\ active_plans' = active_plans
        /\ plan_threads' = plan_threads
        /\ execution_history' = execution_history
        /\ resources' = resources
        /\ resources_by_type' = resources_by_type
        /\ deployments' = deployments
        /\ agent_memories' = agent_memories
        /\ \A q \in Plans :
             /\ invoked'[q] = invoked[q]
             /\ task_status'[q] = task_status[q]
             /\ task_result'[q] = task_result[q]
             /\ plan_status'[q] = plan_status[q]
        /\ plan_status'[p] = "pending"
        /\ \A t \in DOMAIN depends_on'[p] :
             /\ task_status'[p][t] = "pending"
             /\ task_result'[p][t] = "none"
             /\ invoked'[p][t] = 0
             /\ was_terminal'[p][t] = FALSE]_vars

\* C19 witness: a second plan was built and is still untouched while the
\* first plan is registered and running, one of its tasks completed by an
\* agent, and the KnowledgeBase holds a resource.
C19_Witness ==
  /\ Cardinality(Plans) = 2
  /\ handed[2] = 0 /\ plan_status[2] = "pending"
  /\ active_plans[plan_id[1]] = 1 /\ plan_status[1] = "running"
  /\ invoked[1][1] = 1
  /\ resources[1] # NoResource

\* C20: after any sequence of register_resource calls, get_resources_by_type(t)
\* holds, for every type t, exactly the ids whose current record in `resources`
\* has type t, each with that current record.
C20_TypeIndexAgrees ==
  \A t \in ResourceTypes :
    LET found == get_resources_by_type(t) IN
    /\ DOMAIN found = {id \in ResourceIds : resources[id].type = t}
    /\ \A id \in DOMAIN found : found[id] = resources[id]


PairConsistent ==
  \A id \in ResourceIds :
    /\ resources[id] # NoResource
       => \E t \in ResourceTypes :
            t = resources[id].type /\ resources_by_type[t][id] # NoResource
    /\ \A t \in ResourceTypes :
         resources_by_type[t][id] # NoResource => resources[id] # NoResource

\* C21: the body of every public method of the KnowledgeBase, load included,
\* runs inside KnowledgeBase.lock, so a thread inside a block of the lock
\* never finds an id in `resources` that is missing from the index of its
\* type, or an id in an index that is missing from `resources`.
C21_NoIntermediateState == kb_lock # Nobody => PairConsistent


\* C22: when the file holds what save() has written of the current store
\* (reached by register_resource calls), the store of a new process
\* constructed over the file has an equal `resources` and an equal
\* `resources_by_type`.
C22_RoundTrip ==
  [][(restart /\ disk = document(resources, deployments, agent_memories))
     => /\ resources' = resources
        /\ resources_by_type' = resources_by_type]_vars


\* C23: a save or a load that fails changes nothing in the store.  The load
\* of the constructor of a new process, when it fails, leaves the store as
\* __init__ made it (empty); a save() leaves the store as it is; and a
\* register_deployment or update_agent_memory has applied its update whether
\* or not its save failed.
C23_FailureIsNoOp ==
  [][/\ (restart /\ load_fails(disk))
        => /\ resources' = EmptyResources
           /\ resources_by_type' = EmptyIndex
           /\ deployments' = <<>>
           /\ agent_memories' = EmptyMemories
     /\ save => /\ resources' = resources
                /\ resources_by_type' = resources_by_type
                /\ deployments' = deployments
                /\ agent_memories' = agent_memories
     /\ \A deployment_info \in DeploymentInfos :
          register_deployment(deployment_info)
          => deployments' = Append(deployments, deployment_record(deployment_info))
     /\ \A agent \in MemoryAgents : \A value \in Metadata :
          update_agent_memory(agent, value) => agent_memories'[agent] = value]_vars


\* C25: a plan missing from the registry is never an exception for an
\* external caller: get_plan_status returns None for an id without entry, and
\* no execute_plan call leaves _execute_plan by the ValueError of line 487
\* (the step that takes a caller from the lookup of lines 485-487 back out of
\* the call), whatever other drivers register and remove.
C25_MissingPlanNeverRaised ==
  [][\A c \in Callers :
       /\ ~(pc[c] = "ep_begin" /\ pc'[c] = "idle")
       /\ \A id \in PlanIds :
            (get_plan_status(c, id) /\ active_plans[id] = None) => poll' = None]_vars


\* C26: in every reachable state a task has no result exactly while it is
\* `pending` or `running`; a `completed` task holds the mapping its agent
\* returned, a `failed` task a mapping with the key `error` (the message of
\* the exception of the agent, or of the missing agent).
C26_ResultMatchesStatus ==
  \A p \in Plans : \A t \in Tasks(p) :
    /\ task_result[p][t] = "none" <=> task_status[p][t] \in {"pending", "running"}
    /\ task_status[p][t] = "completed" => task_result[p][t] = "result"
    /\ task_status[p][t] = "failed" => task_result[p][t] \in {"error", "no_agent"}


\* C27: the call of an agent's execute_task leaves the task it is given as
\* it was (status, result, completion, dependencies, type, description), and
\* the status of a task is written only by the dispatch step: mark_started
\* (to `running`) and mark_completed / mark_failed (to `completed` / `failed`).
C27_AgentLeavesTask ==
  [][/\ \A th \in Threads :
          (pc[th] = "in_task" /\ pc'[th] = "agent_returned")
          => /\ task_status' = task_status
             /\ task_result' = task_result
             /\ was_terminal' = was_terminal
             /\ depends_on' = depends_on
             /\ agent_type' = agent_type
             /\ description' = description
     /\ \A p \in Plans : \A t \in Tasks(p) :
          task_status'[p][t] # task_status[p][t]
          => \E th \in Threads :
               /\ plan_local[th] = p /\ next_tasks[th] # <<>> /\ Head(next_tasks[th]) = t
               /\ \/ /\ pc[th] = "dispatch" /\ pc'[th] = "in_task"
                     /\ task_status'[p][t] = "running"
                  \/ /\ pc[th] = "agent_returned" /\ pc'[th] \in {"loop", "dispatch"}
                     /\ task_status'[p][t] \in Terminal]_vars

\* C27 witness: the DeploymentAgent has returned its result, having
\* registered a deployment, after the InfrastructureAgent registered an
\* instance; the task it was given is still `running` and without result.
C27_Witness ==
  \E th \in Threads :
    /\ pc[th] = "agent_returned" /\ agent_outcome[th] = "result"
    /\ agent_type[plan_local[th]][Head(next_tasks[th])] = "deployment"
    /\ task_status[plan_local[th]][Head(next_tasks[th])] = "running"
    /\ task_result[plan_local[th]][Head(next_tasks[th])] = "none"
    /\ deployments # <<>>
    /\ resources[now] # NoResource


\* C28: run_ec2_instance never raises.  When the client call has returned,
\* the text returned contains 'EC2 instance launched successfully' and every
\* instance id of the response; when it has raised, the text contains
\* 'Error launching EC2 instance' and the message of the error.
C28_RunEc2InstanceText ==
  /\ reply # Propagated
  /\ response.kind \in {"returned", "no_instances"}
     => /\ contains(reply, "EC2 instance launched successfully")
        /\ \A i \in 1..Len(response.instances) : contains(reply, response.instances[i])
  /\ response.kind = "raised"
     => /\ contains(reply, "Error launching EC2 instance")
        /\ contains(reply, response.message)

\* C28 witness: the client returned three instances, not all with the same
\* id, and the text names the last of them.
C28_Witness ==
  /\ response.kind = "returned"
  /\ Len(response.instances) = 3
  /\ response.instances[1] # response.instances[3]
  /\ contains(reply, "EC2 instance launched successfully")
  /\ contains(reply, response.instances[3])


\* C29: the final status of a plan mirrors its tasks: a plan is `completed`
\* only if every task of it is `completed`, and a plan that has ended with a
\* `failed` task is `failed`.
C29_PlanMirrorsTasks ==
  \A p \in Plans :
    /\ plan_status[p] = "completed"
       => \A t \in Tasks(p) : task_status[p][t] = "completed"
    /\ (plan_status[p] \in Terminal /\ \E t \in Tasks(p) : task_status[p][t] = "failed")
       => plan_status[p] = "failed"


\* Fair scheduling for the concurrent runs: as Fairness, and the handler of
\* _execute_plan_thread runs when it is entered.
FairSpec == Spec /\ Fairness /\ \A w \in Workers : WF_vars(thread_except(w))

\* C30: every plan handed to execute_plan, synchronously or asynchronously,
\* alone or while other plans (of the same id or not) are executed, is
\* eventually `completed` or `failed` and in execution_history.
C30_EveryPlanEnds ==
  \A p \in 1..NPlans :
    (p \in Plans /\ handed[p] >= 1)
    ~> (p \in Plans /\ plan_status[p] \in Terminal /\ Archived(p) >= 1)

\* C31: over the whole life of a plan agent.execute_task is invoked at most
\* once for each task, and exactly once for each task that is completed,
\* whatever execute_plan calls are made and however they interleave.
C31_DispatchedAtMostOnce ==
  \A p \in Plans : \A t \in Tasks(p) :
    /\ invoked[p][t] <= 1
    /\ task_status[p][t] = "completed" => invoked[p][t] = 1

\* the thread is at a `with self.lock:` of the Orchestrator
AtOrchestratorLock(th) ==
  \/ pc[th] \in {"exec_thread", "ep_begin", "loop", "cleanup", "thread_except"}
  \/ th \in Callers /\ app_pc[th] = "entered"

\* the thread is at a `with self.lock:` of the KnowledgeBase: at line 519,
\* or in an agent that registers a resource or a deployment
AtKnowledgeBaseLock(th) ==
  \/ pc[th] = "archive"
  \/ /\ pc[th] = "in_task"
     /\ LET p == plan_local[th]
            t == Head(next_tasks[th])
        IN /\ agent_found(p, t)
           /\ \/ agent_type[p][t] = "deployment"
              \/ agent_type[p][t] = "infrastructure" /\ mentions_ec2(description[p])

\* the thread is at the `with orchestrator_lock:` of app.py
AtAppLock(th) == th \in Callers /\ app_pc[th] = "arrived"

\* the thread cannot go on before another thread releases a lock
Blocked(th) ==
  \/ AtOrchestratorLock(th) /\ lock \notin {None, th}
  \/ AtKnowledgeBaseLock(th) /\ kb_lock # Nobody
  \/ AtAppLock(th) /\ app_lock # None

ReaderBlocked ==
  \/ reader_pc = "arrived" /\ app_lock # None
  \/ reader_pc = "entered" /\ kb_lock # Nobody

\* the threads that are inside a request or executing a plan
Busy == {th \in Threads : pc[th] \notin {"idle", "off", "unborn", "created", "done"}
                          \/ (th \in Callers /\ app_pc[th] # "none")}

\* C32: no thread that holds the lock of the Orchestrator is at a block of
\* the lock of the KnowledgeBase (or of app.py), and the thread that holds
\* the lock of the KnowledgeBase is at no block of another lock; and the
\* threads that are inside a request or a plan are never all blocked on a
\* lock: a thread that is not blocked can take its next step.
C32_NoDeadlock ==
  /\ \A th \in Threads :
       lock = th => ~AtKnowledgeBaseLock(th) /\ ~AtAppLock(th)
  /\ kb_lock # Nobody => kb_lock = "reader" /\ reader_pc = "reading"
  /\ (Busy # {} \/ reader_pc # "idle") =>
       \/ \E th \in Busy : ~Blocked(th)
       \/ reader_pc # "idle" /\ ~ReaderBlocked
  /\ \A th \in Busy :
       ~Blocked(th) =>
         ENABLED (\/ Driver(th)
                  \/ th \in Workers /\ thread_except(th)
                  \/ /\ th \in Callers
                     /\ \/ with_orchestrator_lock(th)
                        \/ \E p \in Plans, async \in BOOLEAN : process_request(th, p, async)
                        \/ \E id \in PlanIds : get_plan(th, id)
                        \/ execute_plan_thread(th)
                        \/ thread_start(th)
                        \/ execute_plan_return(th)
                        \/ orchestrator_lock_release(th))

\* a background thread is at line 519 while the Reader is inside the block
\* of the KnowledgeBase, and the handler of a request waits for the Reader
\* to leave the block of app.py
C32_Witness ==
  /\ \E w \in Workers : pc[w] = "archive" /\ Blocked(w)
  /\ \E c \in Callers : AtAppLock(c) /\ Blocked(c)
  /\ reader_pc = "reading"

\* no execute_plan is in progress and every background thread has ended
AllDriversFinished ==
  /\ \A c \in Callers : pc[c] = "idle"
  /\ \A w \in Workers : pc[w] \in {"unborn", "done"}

\* C33: every plan id with an entry in plan_threads has an entry in
\* active_plans, and once all drivers have finished both registries are
\* empty, however the asynchronous execute_plan calls interleave.
C33_RegistriesConsistent ==
  /\ \A id \in PlanIds : plan_threads[id] # None => active_plans[id] # None
  /\ AllDriversFinished =>
       \A id \in PlanIds : active_plans[id] = None /\ plan_threads[id] = None

\* the tools the claims hold critical in each module
CriticalNames == [m \in Modules |-> IF m = "agent" THEN {"create_ec2_instance_tool"}
                                    ELSE {"create_ec2_instance", "create_s3_bucket"}]

\* the critical tool calls the message carries
CriticalCallsOf(message) ==
  {i \in 1..Len(message.tool_calls) : message.tool_calls[i].name \in CriticalNames[module]}

\* llm_node hands a message with a critical tool call to the tools node
ReleasesCritical ==
  node = "llm" /\ node' = "tools" /\ CriticalCallsOf(last_message') # {}

\* C34: a critical tool call reaches the tools node only from the llm_node
\* that handles an affirmative reply of the user given while
\* is_awaiting_confirmation was set; it is then the only tool call and has
\* the name, arguments and id stored in pending_action_details; and in one
\* invocation (one reply) the tools node runs at most one critical call.
C34_ConfirmationGate ==
  /\ [][ReleasesCritical =>
          /\ is_awaiting_confirmation
          /\ last_message.type = "human"
          /\ strip_lower(last_message.content) \in Affirmative
          /\ steps = 0
          /\ pending_action_details # NoAction
          /\ last_message'.tool_calls = <<[name |-> pending_action_details.tool_name,
                                           args |-> pending_action_details.tool_args,
                                           id |-> pending_action_details.tool_id]>>]_vars
  /\ [](node = "tools" => (CriticalCallsOf(last_message) # {} => steps = 1))
  /\ [](/\ released <= 1
        /\ released = 1 => turn_reply.awaited /\ strip_lower(turn_reply.text) \in Affirmative)

\* the tools node has run create_s3_bucket of agent_mcp after " Yes ", and
\* the LLM, asked again, proposes another critical action
C34_Witness ==
  /\ module = "agent_mcp"
  /\ released = 1
  /\ turn_reply.text = " Yes "
  /\ is_awaiting_confirmation
  /\ pending_action_details.tool_name = "create_s3_bucket"
  /\ steps = 3

\* llm_node handles a reply, given while awaiting, that is not affirmative
HandlesRefusal ==
  /\ node = "llm"
  /\ steps' = steps + 1
  /\ is_awaiting_confirmation
  /\ last_message.type = "human"
  /\ strip_lower(last_message.content) \notin Affirmative

\* C35: when the agent is awaiting confirmation and the reply is not
\* affirmative, llm_node returns a message without tool call, does not call
\* the LLM, clears pending_action_details and is_awaiting_confirmation, and
\* the turn ends; and a critical tool call is released only for the action
\* the LLM proposed last, if no reply has been given to it before.
C35_RefusalCancels ==
  /\ [][HandlesRefusal =>
          /\ last_message'.type = "ai"
          /\ last_message'.tool_calls = <<>>
          /\ ~llm_called'
          /\ pending_action_details' = NoAction
          /\ ~is_awaiting_confirmation'
          /\ node' = "user"]_vars
  /\ [][ReleasesCritical =>
          /\ proposed # NoAction
          /\ last_message'.tool_calls = <<[name |-> proposed.tool_name,
                                           args |-> proposed.tool_args,
                                           id |-> proposed.tool_id]>>]_vars

\* the agent has just answered a refusal: "no" was given to its question
C35_Witness ==
  /\ turn_reply.text = "no"
  /\ turn_reply.awaited
  /\ last_message.content = "not proceeding"
  /\ node = "user"
  /\ steps = 1

\* C36: from the initial agent state, whatever the user, the LLM and the
\* tools do, is_awaiting_confirmation is set exactly when
\* pending_action_details is, so llm_node never answers that no action was
\* pending.
C36_AwaitingIffPending ==
  /\ is_awaiting_confirmation <=> pending_action_details # NoAction
  /\ last_message.content # "no action pending"

\* the agent awaits the confirmation of a second proposal, made after the
\* first was carried out and its tool failed
C36_Witness ==
  /\ is_awaiting_confirmation
  /\ pending_action_details # NoAction
  /\ released = 1
  /\ node = "user"

\* C37: execute_tool_via_mcp always ends with a text (never None) after at
\* most 3 requests: a 4xx response, or a response below 400 that is no JSON,
\* is returned as an error after that one attempt with no wait; a 5xx
\* response, a timeout, a connection error or another exception is followed
\* by a wait (1 s after the first attempt, 2 s after the second) and a new
\* attempt, and by an error after the third attempt; a successful response
\* is returned at once.
IsClientError(o) == o.kind = "response" /\ o.status_code \in 400..499
IsInvalidJson(o) == o.kind = "response" /\ o.status_code < 400 /\ o.body = "not_json"
IsSuccess(o) == o.kind = "response" /\ o.status_code < 400 /\ o.body = "success"
IsRetried(o) ==
  \/ o.kind \in {"Timeout", "ConnectionError", "Exception"}
  \/ o.kind = "response" /\ o.status_code >= 500
  \/ o.kind = "response" /\ o.status_code < 400 /\ o.body = "not_object"
ErrorKinds ==
  {"client_error", "server_error", "JSONDecodeError", "Timeout", "ConnectionError", "Exception"}
C37_Result ==
  /\ requests_sent <= 3
  /\ slept \in {<<>>, <<1>>, <<1, 2>>}
  /\ mcp_pc = "returned" => mcp_result.kind # "None" /\ mcp_result.tool_name = mcp_tool
  /\ mcp_pc = "loop" => requests_sent < 3
C37_Attempt ==
  requests_sent' = requests_sent + 1 =>
    /\ IsClientError(last_outcome') \/ IsInvalidJson(last_outcome') =>
         /\ mcp_pc' = "returned"
         /\ mcp_result'.kind \in {"client_error", "JSONDecodeError"}
         /\ requests_sent' = 1 => slept' = <<>>
         /\ slept' = slept
    /\ IsSuccess(last_outcome') =>
         /\ mcp_pc' = "returned"
         /\ mcp_result'.kind = "success"
         /\ slept' = slept
    /\ IsRetried(last_outcome') =>
         IF requests_sent' < 3
         THEN /\ mcp_pc' = "loop"
              /\ slept' = Append(slept, requests_sent')
         ELSE /\ mcp_pc' = "returned"
              /\ mcp_result'.kind \in ErrorKinds
              /\ slept' = <<1, 2>>
C37_Terminates ==
  /\ []C37_Result
  /\ [][C37_Attempt]_vars
  /\ (mcp_pc = "loop") ~> (mcp_pc = "returned")
C37_Witness ==
  /\ mcp_pc = "returned"
  /\ requests_sent = 3
  /\ slept = <<1, 2>>
  /\ last_outcome.kind = "Timeout"
  /\ mcp_result.kind = "Timeout"

\* C38: reload_mcp_tools_if_needed never replaces a loaded tool list by an
\* empty one: when a load, forced or not, fails or returns no tools,
\* MCP_LC_TOOLS and last_tools_update_time keep their values; an unforced
\* call starts no load once a tool list that is not empty has been loaded;
\* and two loads never overlap.
Loading == {th \in ReloadThreads : reload_pc[th] = "load"}
C38_LoadsSerialized == Cardinality(Loading) <= 1
C38_Reload ==
  /\ MCP_LC_TOOLS # <<>> => MCP_LC_TOOLS' # <<>>
  /\ \A th \in ReloadThreads :
       /\ reload_pc[th] = "loaded" /\ reload_pc'[th] # "loaded" /\ new_tools[th] = <<>> =>
            /\ MCP_LC_TOOLS' = MCP_LC_TOOLS
            /\ last_tools_update_time' = last_tools_update_time
       /\ reload_pc[th] # "load" /\ reload_pc'[th] = "load" /\ ~force[th] => ~tools_loaded
C38_KeepsLoadedTools ==
  /\ []C38_LoadsSerialized
  /\ [][C38_Reload]_vars
C38_Witness ==
  /\ MCP_LC_TOOLS # <<>>
  /\ reload_pc["monitor"] = "return"
  /\ force["monitor"]
  /\ new_tools["monitor"] = <<>>
  /\ last_tools_update_time < current_time["monitor"]
  /\ reload_pc["main"] = "skip"
  /\ ~force["main"]

====
